---- MODULE Spec2Model ----
(***************************************************************************)
(* Model of the ex02 pipeline of cpp-senders-example.                      *)
(*                                                                         *)
(*   producer_range<hw_frame>  (producer_range.hpp): a queue, a mutex, a   *)
(*     condition variable and a finished flag; add(), finish(),            *)
(*     async_write_gate() and an input iterator whose operator++ blocks.   *)
(*   hw_decoder                (decoder.hpp): a mock decoder that runs one *)
(*     scheduled task per decode_next_frame and calls back with a frame.   *)
(*   main                      (ex02/main.cpp): the frame_transfer loop,   *)
(*     the frame_reader loop and the thread that calls finish().           *)
(*                                                                         *)
(* Further sections model, on the same variables, the other classes and   *)
(* programs of the repository: buffering_range, the two ondemand_range     *)
(* variants, the hw_decoder alone, and ex01 (frame_index_cache, main).     *)
(*                                                                         *)
(* std::mutex is the variable mutex_ (its owner, or "free"); the           *)
(* std::condition_variable is the set cv_ of threads blocked in wait(). A  *)
(* thread blocked in cv_.wait(lock, pred) runs again only after a          *)
(* notify_all (or a spurious wake-up) removed it from cv_ and it got the   *)
(* mutex back; it then evaluates pred again.                               *)
(***************************************************************************)
EXTENDS Integers, Sequences, FiniteSets, TLC

\* Bound of the model: the largest initial value of `count` (main.cpp:28 sets
\* 10; the loop is the same for every positive value).
MaxCount == 3

\* Bound of the model: the largest number of add() calls of the stand-alone
\* producer of AddFinishSpec.
MaxAdds == 3

\* Bound of the model: the number of calls each free-running caller of
\* ApiSpec makes.
MaxCalls == 3

\* Bound of the model: the number of frames the on-demand reader of
\* OdFinishSpec fetches at most.
MaxFetches == 12

\* Bound of the model: the number of write() calls, and of read() calls, on
\* the frame_index_cache of CacheSpec.
MaxItems == 6

\* main.cpp:23
frame_cache_limit == 1

\* The buffering example's main: `for (int i = 0; i < 10; ++i)` decode calls
decode_calls == 10

\* The buffering example's main: std::views::take(5)
take_count == 5

\* An empty std::optional<T> (iterator::current_) / a moved-from frame slot.
NoFrame == -1

Threads == {"transfer", "reader", "stopper"}

VARIABLES
    buffer_,    \* producer_range::buffer_      (std::queue<T>, as a sequence)
    finished_,  \* producer_range::finished_
    mutex_,     \* producer_range::mutex_: "free" or the thread that holds it
    cv_,        \* producer_range::cv_: the threads blocked in cv_.wait
    pc,         \* the position of each thread
    count,      \* main.cpp: int count
    index,      \* hw_decoder::index
    pending,    \* tasks spawned on the decoder's context that have not run yet
    frame,      \* the frame the producer holds between the callback and add()
    current_,   \* iterator::current_ of the reader's cursor
    consumed,   \* the frames handed to the reader's transform_each lambda, in order
    written,    \* history: the items passed to add(), in call order
    lateAdds,   \* history: the items whose add() started after finish() returned
    decodesAfterFinish, \* history: decodes initiated after finish() returned
    mainDone,   \* sync_wait(main_scope.on_empty()) has returned
    tokens,     \* the client_data token of each task spawned on the decoder's
                \* context and not run yet, in spawn order
    bridge,     \* history: one record per started decode_frame_op_state
    calls,      \* the number of calls each free-running caller still makes
    od,         \* ondemand_range: the cursor's call-local state and history
    at_end_,    \* buffering_range (timeout variant): iterator::at_end_
    timedOut,   \* buffering_range (timeout variant): wait_for ran out of time
    variant,    \* which range class the threads share
    cursors,    \* several cursors on one producer_range: each cursor's
                \* current_ and the history of the items it loaded
    main_loop,  \* ex01: stdexec::run_loop main_loop (queued tasks, state)
    stop_source \* ex01: main_scope's stop source: request_stop() was called

vars == <<buffer_, finished_, mutex_, cv_, pc, count, index, pending, frame,
          current_, consumed, written, lateAdds, decodesAfterFinish, mainDone,
          tokens, bridge, calls, od, at_end_, timedOut, variant, cursors, main_loop, stop_source>>

\* ondemand_range: no call made yet.
OdInit == [until_pred |-> FALSE, evals |-> 0, fetches |-> 0,
           before |-> NoFrame, eqResult |-> FALSE, sawEnd |-> FALSE,
           endBefore |-> FALSE]

\* ex01: main_loop before main_loop.run(): no task queued, finish() not
\* called, the main thread not inside a task.
LoopInit == [tasks |-> 0, state |-> "running", busy |-> FALSE]

\* The decoder's task queue and the history of the callback bridge.
BridgeVars == <<tokens, bridge>>

\* The state of the other example programs, which ex02 never touches.
ExtVars == <<calls, od, at_end_, timedOut, variant, cursors, main_loop, stop_source>>

----------------------------------------------------------------------------
(* producer_range                                                          *)

\* A lock that is taken without waiting for the mutex to be free.
AcquireUnlocked(t, from, blocked, to) ==
    /\ \/ pc[t] = from
       \/ pc[t] = blocked /\ t \notin cv_
    /\ mutex_' = t
    /\ pc' = [pc EXCEPT ![t] = to]

\* std::lock_guard / std::unique_lock constructor, and the re-acquisition of
\* the mutex by a thread that left cv_.wait: thread t, at `from` or blocked
\* at `blocked` and no longer waiting, takes the free mutex.
Acquire(t, from, blocked, to) ==
    /\ \/ pc[t] = from
       \/ pc[t] = blocked /\ t \notin cv_
    /\ mutex_ = "free"
    /\ mutex_' = t
    /\ pc' = [pc EXCEPT ![t] = to]

\* cv_.wait releases the mutex and blocks the caller, atomically.
Block(t, blocked) ==
    /\ mutex_ = t
    /\ mutex_' = "free"
    /\ cv_' = cv_ \cup {t}
    /\ pc' = [pc EXCEPT ![t] = blocked]

\* condition_variable::notify_all
notify_all(waiters) == {}

\* A missing notification.
no_notify(waiters) == waiters

\* add(): the buffer after `if (!finished_) buffer_.push(item)`
add_push_unchecked(q, fin, item) == Append(q, item)

add_push(q, fin, item) == IF ~fin THEN Append(q, item) ELSE q

\* add(): cv_.notify_all()
add_notify(waiters) == notify_all(waiters)

\* add(), from the lock_guard to the end of the scope.
AddBody(t, item, next) ==
    /\ pc[t] = "add_locked"
    /\ mutex_ = t
    /\ buffer_' = add_push(buffer_, finished_, item)
    /\ cv_' = add_notify(cv_)
    /\ mutex_' = "free"
    /\ pc' = [pc EXCEPT ![t] = next]
    /\ UNCHANGED finished_

\* iterator::operator++: the predicate of cv_.wait
inc_ready(q, fin) == q # <<>> \/ fin

\* iterator::operator++: cv_.notify_all() after the pop
inc_notify(waiters) == notify_all(waiters)

\* iterator::operator++: the predicate is false, the caller blocks.
IncWait(t) ==
    /\ pc[t] = "inc_locked"
    /\ ~inc_ready(buffer_, finished_)
    /\ Block(t, "inc_blocked")
    /\ UNCHANGED <<buffer_, finished_, current_>>

\* iterator::operator++: the predicate holds; load the head or reset.
IncBody(t, next) ==
    /\ pc[t] = "inc_locked"
    /\ mutex_ = t
    /\ inc_ready(buffer_, finished_)
    /\ IF buffer_ # <<>>
         THEN /\ current_' = Head(buffer_)
              /\ buffer_' = Tail(buffer_)
              /\ cv_' = inc_notify(cv_)
         ELSE /\ current_' = NoFrame
              /\ UNCHANGED <<buffer_, cv_>>
    /\ mutex_' = "free"
    /\ pc' = [pc EXCEPT ![t] = next]
    /\ UNCHANGED finished_

\* iterator::operator==(std::default_sentinel_t): the value returned
at_end_negated(fin) == ~fin

at_end(fin) == fin

\* iterator::operator==(std::default_sentinel_t), under the lock.
EqBody(t, ifEnd, ifNot) ==
    /\ pc[t] = "eq_locked"
    /\ mutex_ = t
    /\ mutex_' = "free"
    /\ pc' = [pc EXCEPT ![t] = IF at_end(finished_) THEN ifEnd ELSE ifNot]
    /\ UNCHANGED <<buffer_, finished_, cv_>>

\* finish(): cv_.notify_all()
finish_notify(waiters) == notify_all(waiters)

\* finish(): finished_ = true
finish_flag_toggle(fin) == ~fin

finish_flag(fin) == TRUE

\* finish(), from the lock_guard to the end of the scope.
FinishBody(t, next) ==
    /\ pc[t] = "finish_locked"
    /\ mutex_ = t
    /\ finished_' = finish_flag(finished_)
    /\ cv_' = finish_notify(cv_)
    /\ mutex_' = "free"
    /\ pc' = [pc EXCEPT ![t] = next]
    /\ UNCHANGED buffer_

\* main.cpp: the write gate given to make_producer_range
write_gate_loose(q) == Len(q) <= frame_cache_limit

write_gate(q) == Len(q) < frame_cache_limit

\* async_write_gate(): the predicate of cv_.wait
gate_ready(q, fin) == write_gate(q) \/ fin

\* async_write_gate(): the predicate is false, the caller blocks.
GateWait(t) ==
    /\ pc[t] = "gate_locked"
    /\ ~gate_ready(buffer_, finished_)
    /\ Block(t, "gate_blocked")
    /\ UNCHANGED <<buffer_, finished_>>

\* async_write_gate(): the predicate holds, return stdexec::just().
GatePass(t, next) ==
    /\ pc[t] = "gate_locked"
    /\ mutex_ = t
    /\ gate_ready(buffer_, finished_)
    /\ mutex_' = "free"
    /\ pc' = [pc EXCEPT ![t] = next]
    /\ UNCHANGED <<buffer_, finished_, cv_>>

\* std::condition_variable::wait may return without a notification; the
\* caller then takes the mutex and evaluates the predicate again.
SpuriousWakeup ==
    /\ \E t \in cv_ : cv_' = cv_ \ {t}
    /\ UNCHANGED <<buffer_, finished_, mutex_, pc, count, index, pending, frame,
                   current_, consumed, written, lateAdds, decodesAfterFinish,
                   mainDone>>
    /\ UNCHANGED BridgeVars
    /\ UNCHANGED ExtVars

----------------------------------------------------------------------------
(* ex02/main.cpp: frame_transfer, the producer loop                        *)

OtherVars == <<count, index, pending, frame, current_, consumed, written,
               lateAdds, decodesAfterFinish, mainDone>>

\* async_write_gate(): std::unique_lock(mutex_)
GateLock ==
    /\ Acquire("transfer", "gate", "gate_blocked", "gate_locked")
    /\ UNCHANGED <<buffer_, finished_, cv_>>
    /\ UNCHANGED OtherVars
    /\ UNCHANGED BridgeVars
    /\ UNCHANGED ExtVars

TransferGateWait ==
    /\ GateWait("transfer")
    /\ UNCHANGED OtherVars
    /\ UNCHANGED BridgeVars
    /\ UNCHANGED ExtVars

TransferGatePass ==
    /\ GatePass("transfer", "decode")
    /\ UNCHANGED OtherVars
    /\ UNCHANGED BridgeVars
    /\ UNCHANGED ExtVars

\* hw_decoder::decode_next_frame: scope.spawn of one task that carries the
\* client_data token.
decode_next_frame_twice(q, token) == Append(Append(q, token), token)

decode_next_frame(q, token) == Append(q, token)

\* decode_frame_op_state::on_frame: the frame given to set_value on the
\* operation's receiver, for the frame the decoder passed to the callback.
on_frame(f) == f

\* decode_frame_op_state::start -> hw_decoder::decode_next_frame: one task is
\* spawned on the decoder's context.
DecodeStart ==
    /\ pc["transfer"] = "decode"
    /\ tokens' = decode_next_frame(tokens, Len(bridge) + 1)
    /\ pending' = Len(tokens')
    /\ bridge' = Append(bridge, [init |-> Len(tokens') - Len(tokens), cb |-> 0,
                                 done |-> 0, cbFrame |-> NoFrame,
                                 rcvFrame |-> NoFrame, viol |-> FALSE])
    /\ pc' = [pc EXCEPT !["transfer"] = "decode_wait"]
    /\ decodesAfterFinish' =
         IF pc["stopper"] = "done" THEN decodesAfterFinish + 1
                                   ELSE decodesAfterFinish
    /\ UNCHANGED <<buffer_, finished_, mutex_, cv_, count, index, frame,
                   current_, consumed, written, lateAdds, mainDone>>
    /\ UNCHANGED ExtVars

\* The decoder's task: build the frame with index++ and call on_frame, which
\* completes the receiver with the frame; the `then` that calls add() follows.
DecoderRun ==
    /\ pending > 0
    /\ pc["transfer"] = "decode_wait"
    /\ frame' = on_frame(index)
    /\ index' = index + 1
    /\ tokens' = Tail(tokens)
    /\ pending' = Len(tokens')
    /\ bridge' = [bridge EXCEPT ![Head(tokens)] =
                     [@ EXCEPT !.cb = @ + 1, !.done = @ + 1,
                               !.cbFrame = index, !.rcvFrame = on_frame(index)]]
    /\ pc' = [pc EXCEPT !["transfer"] = "add"]
    /\ UNCHANGED <<buffer_, finished_, mutex_, cv_, count, current_, consumed,
                   written, lateAdds, decodesAfterFinish, mainDone>>
    /\ UNCHANGED ExtVars

\* frame_cache.add(std::move(frame)): std::lock_guard(mutex_)
TransferAddLock ==
    /\ Acquire("transfer", "add", "add", "add_locked")
    /\ written' = Append(written, frame)
    /\ lateAdds' = IF pc["stopper"] = "done" THEN lateAdds \cup {frame}
                                              ELSE lateAdds
    /\ UNCHANGED <<buffer_, finished_, cv_, count, index, pending, frame,
                   current_, consumed, decodesAfterFinish, mainDone>>
    /\ UNCHANGED BridgeVars
    /\ UNCHANGED ExtVars

TransferAdd ==
    /\ AddBody("transfer", frame, "count")
    /\ frame' = NoFrame
    /\ UNCHANGED <<count, index, pending, current_, consumed, written,
                   lateAdds, decodesAfterFinish, mainDone>>
    /\ UNCHANGED BridgeVars
    /\ UNCHANGED ExtVars

\* then([&count] { return --count == 0; }) | exec::repeat_effect_until()
CountDec ==
    /\ pc["transfer"] = "count"
    /\ count' = count - 1
    /\ pc' = [pc EXCEPT !["transfer"] = IF count - 1 = 0 THEN "done" ELSE "gate"]
    /\ UNCHANGED <<buffer_, finished_, mutex_, cv_, index, pending, frame,
                   current_, consumed, written, lateAdds, decodesAfterFinish,
                   mainDone>>
    /\ UNCHANGED BridgeVars
    /\ UNCHANGED ExtVars

----------------------------------------------------------------------------
(* ex02/main.cpp: frame_reader, the consumer loop of exec::iterate over    *)
(* views::all(frame_cache): begin() loads the first item; then compare     *)
(* with the sentinel, hand *it to the lambda, advance (the input-range      *)
(* protocol; exec::iterate itself is stdexec code, outside the repository). *)

\* iterator::operator++: std::unique_lock(parent_->mutex_)
IncLock ==
    /\ Acquire("reader", "inc", "inc_blocked", "inc_locked")
    /\ UNCHANGED <<buffer_, finished_, cv_>>
    /\ UNCHANGED OtherVars
    /\ UNCHANGED BridgeVars
    /\ UNCHANGED ExtVars

ReaderIncWait ==
    /\ IncWait("reader")
    /\ UNCHANGED <<count, index, pending, frame, consumed, written, lateAdds,
                   decodesAfterFinish, mainDone>>
    /\ UNCHANGED BridgeVars
    /\ UNCHANGED ExtVars

ReaderInc ==
    /\ IncBody("reader", "eq")
    /\ UNCHANGED <<count, index, pending, frame, consumed, written, lateAdds,
                   decodesAfterFinish, mainDone>>
    /\ UNCHANGED BridgeVars
    /\ UNCHANGED ExtVars

\* iterator::operator==(sentinel): std::unique_lock(parent_->mutex_)
EqLock ==
    /\ Acquire("reader", "eq", "eq", "eq_locked")
    /\ UNCHANGED <<buffer_, finished_, cv_>>
    /\ UNCHANGED OtherVars
    /\ UNCHANGED BridgeVars
    /\ UNCHANGED ExtVars

ReaderEq ==
    /\ EqBody("reader", "done", "deref")
    /\ UNCHANGED OtherVars
    /\ UNCHANGED BridgeVars
    /\ UNCHANGED ExtVars

\* transform_each(then([&total](auto&& frame) { ... total += frame.index; }))
Process ==
    /\ pc["reader"] = "deref"
    /\ consumed' = Append(consumed, current_)
    /\ pc' = [pc EXCEPT !["reader"] = "inc"]
    /\ UNCHANGED <<buffer_, finished_, mutex_, cv_, count, index, pending,
                   frame, current_, written, lateAdds, decodesAfterFinish,
                   mainDone>>
    /\ UNCHANGED BridgeVars
    /\ UNCHANGED ExtVars

----------------------------------------------------------------------------
(* ex02/main.cpp: the detached thread that calls frame_cache.finish()      *)

\* finish(): std::lock_guard(mutex_), once the sleep is over
StopperFinishLock ==
    /\ Acquire("stopper", "finish", "finish", "finish_locked")
    /\ UNCHANGED <<buffer_, finished_, cv_>>
    /\ UNCHANGED OtherVars
    /\ UNCHANGED BridgeVars
    /\ UNCHANGED ExtVars

StopperFinish ==
    /\ FinishBody("stopper", "done")
    /\ UNCHANGED OtherVars
    /\ UNCHANGED BridgeVars
    /\ UNCHANGED ExtVars

\* stdexec::sync_wait(main_scope.on_empty()) returns: both spawned loops completed.
MainReturn ==
    /\ pc["transfer"] = "done"
    /\ pc["reader"] = "done"
    /\ ~mainDone
    /\ mainDone' = TRUE
    /\ UNCHANGED <<buffer_, finished_, mutex_, cv_, pc, count, index, pending,
                   frame, current_, consumed, written, lateAdds,
                   decodesAfterFinish>>
    /\ UNCHANGED BridgeVars
    /\ UNCHANGED ExtVars

----------------------------------------------------------------------------

\* The state after main has spawned both loops and started the stopper thread.
Init ==
    /\ buffer_ = <<>>
    /\ finished_ = FALSE
    /\ mutex_ = "free"
    /\ cv_ = {}
    /\ pc = [t \in Threads |->
               CASE t = "transfer" -> "gate"
                 [] t = "reader"   -> "inc"
                 [] t = "stopper"  -> "finish"]
    /\ count \in 1..MaxCount
    /\ index = 0
    /\ pending = 0
    /\ frame = NoFrame
    /\ current_ = NoFrame
    /\ consumed = <<>>
    /\ written = <<>>
    /\ lateAdds = {}
    /\ decodesAfterFinish = 0
    /\ mainDone = FALSE
    /\ tokens = <<>>
    /\ bridge = <<>>
    /\ calls = [t \in Threads |-> 0]
    /\ od = OdInit
    /\ at_end_ = FALSE
    /\ timedOut = FALSE
    /\ variant = "producer_range"
    /\ cursors = <<>>
    /\ main_loop = LoopInit
    /\ stop_source = FALSE

TransferNext ==
    \/ GateLock
    \/ TransferGateWait
    \/ TransferGatePass
    \/ DecodeStart
    \/ TransferAddLock
    \/ TransferAdd
    \/ CountDec

ReaderNext ==
    \/ IncLock
    \/ ReaderIncWait
    \/ ReaderInc
    \/ EqLock
    \/ ReaderEq
    \/ Process

Next ==
    \/ GateLock
    \/ TransferGateWait
    \/ TransferGatePass
    \/ DecodeStart
    \/ DecoderRun
    \/ TransferAddLock
    \/ TransferAdd
    \/ CountDec
    \/ IncLock
    \/ ReaderIncWait
    \/ ReaderInc
    \/ EqLock
    \/ ReaderEq
    \/ Process
    \/ StopperFinishLock
    \/ StopperFinish
    \/ MainReturn
    \/ SpuriousWakeup

Spec == Init /\ [][Next]_vars

\* Fair scheduling: a thread that can run again and again eventually runs (in
\* particular a thread that finds the mutex free again and again eventually
\* takes it), the decoder runs its task, and a thread inside finish() leaves
\* it. Nothing is assumed about spurious wake-ups, nor about the moment at
\* which the stopper thread calls finish().
LiveSpec ==
    /\ Spec
    /\ SF_vars(TransferNext)
    /\ SF_vars(ReaderNext)
    /\ WF_vars(DecoderRun)
    /\ WF_vars(StopperFinish)
    /\ WF_vars(MainReturn)

TypeOK ==
    /\ buffer_ \in Seq(Nat)
    /\ finished_ \in BOOLEAN
    /\ mutex_ \in Threads \cup {"free"}
    /\ cv_ \subseteq Threads
    /\ count \in Nat
    /\ pending \in {0, 1}

----------------------------------------------------------------------------
(* producer_range used by a stand-alone producer: add() called `count`     *)
(* times with the items 0, 1, ... and then finish(), all by one thread,    *)
(* beside one reader that iterates from begin() to the sentinel. Here      *)
(* `frame` is the next item to add and `count` the number of add() calls   *)
(* left; there is no stopper thread and no decoder.                        *)

DriverAddLock ==
    /\ Acquire("transfer", "add", "add", "add_locked")
    /\ written' = Append(written, frame)
    /\ UNCHANGED <<buffer_, finished_, cv_, count, index, pending, frame,
                   current_, consumed, lateAdds, decodesAfterFinish, mainDone>>
    /\ UNCHANGED BridgeVars
    /\ UNCHANGED ExtVars

DriverAdd ==
    /\ AddBody("transfer", frame, IF count - 1 = 0 THEN "finish" ELSE "add")
    /\ frame' = frame + 1
    /\ count' = count - 1
    /\ UNCHANGED <<index, pending, current_, consumed, written, lateAdds,
                   decodesAfterFinish, mainDone>>
    /\ UNCHANGED BridgeVars
    /\ UNCHANGED ExtVars

DriverFinishLock ==
    /\ Acquire("transfer", "finish", "finish", "finish_locked")
    /\ UNCHANGED <<buffer_, finished_, cv_>>
    /\ UNCHANGED OtherVars
    /\ UNCHANGED BridgeVars
    /\ UNCHANGED ExtVars

DriverFinish ==
    /\ FinishBody("transfer", "done")
    /\ UNCHANGED OtherVars
    /\ UNCHANGED BridgeVars
    /\ UNCHANGED ExtVars

AddFinishInit ==
    /\ buffer_ = <<>>
    /\ finished_ = FALSE
    /\ mutex_ = "free"
    /\ cv_ = {}
    /\ count \in 0..MaxAdds
    /\ pc = [t \in Threads |->
               CASE t = "transfer" -> IF count = 0 THEN "finish" ELSE "add"
                 [] t = "reader"   -> "inc"
                 [] t = "stopper"  -> "absent"]
    /\ index = 0
    /\ pending = 0
    /\ frame = 0
    /\ current_ = NoFrame
    /\ consumed = <<>>
    /\ written = <<>>
    /\ lateAdds = {}
    /\ decodesAfterFinish = 0
    /\ mainDone = FALSE
    /\ tokens = <<>>
    /\ bridge = <<>>
    /\ calls = [t \in Threads |-> 0]
    /\ od = OdInit
    /\ at_end_ = FALSE
    /\ timedOut = FALSE
    /\ variant = "producer_range"
    /\ cursors = <<>>
    /\ main_loop = LoopInit
    /\ stop_source = FALSE

AddFinishNext ==
    \/ DriverAddLock
    \/ DriverAdd
    \/ DriverFinishLock
    \/ DriverFinish
    \/ IncLock
    \/ ReaderIncWait
    \/ ReaderInc
    \/ EqLock
    \/ ReaderEq
    \/ Process
    \/ SpuriousWakeup

AddFinishSpec == AddFinishInit /\ [][AddFinishNext]_vars

----------------------------------------------------------------------------
(* ex02 with a faulty external producer: beside the steps of ex02, a fetch *)
(* may complete with an error (frame_index_sender_t declares               *)
(* set_error_t(std::exception_ptr)), and the callback may be invoked a     *)
(* second time with the token of an operation that already completed.      *)

\* The operation's receiver is completed with set_error: let_value, then and
\* repeat_effect_until pass the error on (the add() and the --count of this
\* iteration do not run), upon_stopped and the final then do not handle it:
\* frame_transfer ends with the error.
DecodeFail ==
    /\ pending > 0
    /\ pc["transfer"] = "decode_wait"
    /\ tokens' = Tail(tokens)
    /\ pending' = Len(tokens')
    /\ bridge' = [bridge EXCEPT ![Head(tokens)] = [@ EXCEPT !.done = @ + 1]]
    /\ pc' = [pc EXCEPT !["transfer"] = "failed"]
    /\ UNCHANGED <<buffer_, finished_, mutex_, cv_, count, index, frame,
                   current_, consumed, written, lateAdds, decodesAfterFinish,
                   mainDone>>
    /\ UNCHANGED ExtVars

\* on_frame called again for operation op: it calls set_value on op->receiver
\* with no test of an earlier completion. The receiver was moved from by the
\* first call, so whether a second value arrives downstream is not defined;
\* nothing in the code raises an error.
CallbackAgain ==
    /\ \E op \in 1..Len(bridge) : \E delivered \in {0, 1} :
         /\ bridge[op].cb = 1
         /\ bridge' = [bridge EXCEPT ![op] =
                         [@ EXCEPT !.cb = @ + 1, !.done = @ + delivered]]
    /\ UNCHANGED <<buffer_, finished_, mutex_, cv_, pc, count, index, pending,
                   frame, current_, consumed, written, lateAdds,
                   decodesAfterFinish, mainDone, tokens>>
    /\ UNCHANGED ExtVars

FaultNext ==
    \/ GateLock
    \/ TransferGateWait
    \/ TransferGatePass
    \/ DecodeStart
    \/ DecoderRun
    \/ DecodeFail
    \/ CallbackAgain
    \/ TransferAddLock
    \/ TransferAdd
    \/ CountDec
    \/ IncLock
    \/ ReaderIncWait
    \/ ReaderInc
    \/ EqLock
    \/ ReaderEq
    \/ Process
    \/ StopperFinishLock
    \/ StopperFinish
    \/ MainReturn
    \/ SpuriousWakeup

FaultSpec == Init /\ [][FaultNext]_vars

----------------------------------------------------------------------------
(* producer_range under free-running callers: one thread calls add() (with *)
(* the items 0, 1, ...) and finish() in any order, a second thread calls   *)
(* finish() once, and a reader, after begin(), calls operator++ and        *)
(* operator==(sentinel) in any order. Each caller makes at most MaxCalls   *)
(* calls. `frame` is the next item to add.                                 *)

ProducerIdle == {"idle", "add_returned", "finish_returned"}

ReaderIdle == {"inc_returned", "saw_end", "saw_not"}

ApiAddLock ==
    /\ pc["transfer"] \in ProducerIdle
    /\ calls["transfer"] > 0
    /\ Acquire("transfer", pc["transfer"], pc["transfer"], "add_locked")
    /\ calls' = [calls EXCEPT !["transfer"] = @ - 1]
    /\ written' = Append(written, frame)
    /\ UNCHANGED <<buffer_, finished_, cv_, count, index, pending, frame,
                   current_, consumed, lateAdds, decodesAfterFinish, mainDone>>
    /\ UNCHANGED BridgeVars
    /\ UNCHANGED <<od, at_end_, timedOut, variant, cursors, main_loop, stop_source>>

ApiAdd ==
    /\ AddBody("transfer", frame, "add_returned")
    /\ frame' = frame + 1
    /\ UNCHANGED <<count, index, pending, current_, consumed, written,
                   lateAdds, decodesAfterFinish, mainDone>>
    /\ UNCHANGED BridgeVars
    /\ UNCHANGED ExtVars

ApiFinishLock ==
    /\ pc["transfer"] \in ProducerIdle
    /\ calls["transfer"] > 0
    /\ Acquire("transfer", pc["transfer"], pc["transfer"], "finish_locked")
    /\ calls' = [calls EXCEPT !["transfer"] = @ - 1]
    /\ UNCHANGED <<buffer_, finished_, cv_>>
    /\ UNCHANGED OtherVars
    /\ UNCHANGED BridgeVars
    /\ UNCHANGED <<od, at_end_, timedOut, variant, cursors, main_loop, stop_source>>

ApiFinish ==
    /\ FinishBody("transfer", "finish_returned")
    /\ UNCHANGED OtherVars
    /\ UNCHANGED BridgeVars
    /\ UNCHANGED ExtVars

\* The reader calls operator++ again.
ApiCallInc ==
    /\ pc["reader"] \in ReaderIdle
    /\ calls["reader"] > 0
    /\ pc' = [pc EXCEPT !["reader"] = "inc"]
    /\ calls' = [calls EXCEPT !["reader"] = @ - 1]
    /\ UNCHANGED <<buffer_, finished_, mutex_, cv_>>
    /\ UNCHANGED OtherVars
    /\ UNCHANGED BridgeVars
    /\ UNCHANGED <<od, at_end_, timedOut, variant, cursors, main_loop, stop_source>>

ApiInc ==
    /\ IncBody("reader", "inc_returned")
    /\ UNCHANGED <<count, index, pending, frame, consumed, written, lateAdds,
                   decodesAfterFinish, mainDone>>
    /\ UNCHANGED BridgeVars
    /\ UNCHANGED ExtVars

\* The reader compares its cursor with the sentinel.
ApiCallEq ==
    /\ pc["reader"] \in ReaderIdle
    /\ calls["reader"] > 0
    /\ pc' = [pc EXCEPT !["reader"] = "eq"]
    /\ calls' = [calls EXCEPT !["reader"] = @ - 1]
    /\ UNCHANGED <<buffer_, finished_, mutex_, cv_>>
    /\ UNCHANGED OtherVars
    /\ UNCHANGED BridgeVars
    /\ UNCHANGED <<od, at_end_, timedOut, variant, cursors, main_loop, stop_source>>

ApiEq ==
    /\ EqBody("reader", "saw_end", "saw_not")
    /\ UNCHANGED OtherVars
    /\ UNCHANGED BridgeVars
    /\ UNCHANGED ExtVars

ApiInit ==
    /\ buffer_ = <<>>
    /\ finished_ = FALSE
    /\ mutex_ = "free"
    /\ cv_ = {}
    /\ pc = [t \in Threads |->
               CASE t = "transfer" -> "idle"
                 [] t = "reader"   -> "inc"
                 [] t = "stopper"  -> "finish"]
    /\ count = 0
    /\ index = 0
    /\ pending = 0
    /\ frame = 0
    /\ current_ = NoFrame
    /\ consumed = <<>>
    /\ written = <<>>
    /\ lateAdds = {}
    /\ decodesAfterFinish = 0
    /\ mainDone = FALSE
    /\ tokens = <<>>
    /\ bridge = <<>>
    /\ calls = [t \in Threads |-> IF t = "stopper" THEN 0 ELSE MaxCalls]
    /\ od = OdInit
    /\ at_end_ = FALSE
    /\ timedOut = FALSE
    /\ variant = "producer_range"
    /\ cursors = <<>>
    /\ main_loop = LoopInit
    /\ stop_source = FALSE

ApiNext ==
    \/ ApiAddLock
    \/ ApiAdd
    \/ ApiFinishLock
    \/ ApiFinish
    \/ StopperFinishLock
    \/ StopperFinish
    \/ IncLock
    \/ ReaderIncWait
    \/ ApiInc
    \/ ApiCallInc
    \/ ApiCallEq
    \/ EqLock
    \/ ApiEq
    \/ SpuriousWakeup

ApiSpec == ApiInit /\ [][ApiNext]_vars

----------------------------------------------------------------------------
(* ondemand_range, the variant with an until predicate (ondemand_range.hpp *)
(* with until_sender_provider): one reader that, after begin(), calls      *)
(* operator++ and operator==(sentinel) in any order, at most MaxCalls      *)
(* calls in all. Every evaluation of the until sender may give either      *)
(* value. The item sender is async_decode_frame on the hw_decoder.         *)
(* od.until_pred, od.evals, od.fetches and od.before describe the running  *)
(* or last operator++: the predicate's value, the number of evaluations    *)
(* and of fetches it made, and current_ when it was called. od.eqResult is *)
(* the result of the last comparison, od.endBefore whether an earlier      *)
(* comparison had reported End.                                            *)

OdIdle == {"od_inc_returned", "od_eq_returned"}

OdRangeVars == <<buffer_, finished_, mutex_, cv_, count, frame, consumed,
                 written, lateAdds, decodesAfterFinish, mainDone, at_end_,
                 timedOut, variant, cursors, main_loop, stop_source>>

\* move_iterator::operator++: `if (until_pred) return *this;`
inc_skips_never(until_pred) == FALSE

inc_skips(until_pred) == until_pred

\* The reader calls operator++ (begin() makes the first call).
OdCallInc ==
    /\ pc["reader"] \in OdIdle \cup {"od_begin"}
    /\ calls["reader"] > 0
    /\ calls' = [calls EXCEPT !["reader"] = @ - 1]
    /\ od' = [od EXCEPT !.evals = 0, !.fetches = 0, !.before = current_]
    /\ pc' = [pc EXCEPT !["reader"] = "od_inc_until"]
    /\ UNCHANGED <<index, pending, current_, tokens, bridge>>
    /\ UNCHANGED OdRangeVars

\* operator++: sync_wait(until_sender_provider_()), then the early return.
OdIncUntil ==
    /\ pc["reader"] = "od_inc_until"
    /\ \E u \in BOOLEAN :
         /\ od' = [od EXCEPT !.until_pred = u, !.evals = @ + 1]
         /\ pc' = [pc EXCEPT !["reader"] =
                     IF inc_skips(u) THEN "od_inc_returned" ELSE "od_fetch"]
    /\ UNCHANGED <<index, pending, current_, tokens, bridge, calls>>
    /\ UNCHANGED OdRangeVars

\* operator++: sync_wait(any_item_sender_provider_()) starts the decode
\* operation, which spawns one task on the decoder's context.
OdFetchStart ==
    /\ pc["reader"] = "od_fetch"
    /\ tokens' = decode_next_frame(tokens, Len(bridge) + 1)
    /\ pending' = Len(tokens')
    /\ bridge' = Append(bridge, [init |-> Len(tokens') - Len(tokens), cb |-> 0,
                                 done |-> 0, cbFrame |-> NoFrame,
                                 rcvFrame |-> NoFrame, viol |-> FALSE])
    /\ od' = [od EXCEPT !.fetches = @ + 1]
    /\ pc' = [pc EXCEPT !["reader"] = "od_fetch_wait"]
    /\ UNCHANGED <<index, current_, calls>>
    /\ UNCHANGED OdRangeVars

\* The decoder's task calls on_frame; sync_wait returns the frame and
\* operator++ stores it in current_.
OdDecoderRun ==
    /\ pending > 0
    /\ pc["reader"] = "od_fetch_wait"
    /\ current_' = on_frame(index)
    /\ index' = index + 1
    /\ tokens' = Tail(tokens)
    /\ pending' = Len(tokens')
    /\ bridge' = [bridge EXCEPT ![Head(tokens)] =
                     [@ EXCEPT !.cb = @ + 1, !.done = @ + 1,
                               !.cbFrame = index, !.rcvFrame = on_frame(index)]]
    /\ pc' = [pc EXCEPT !["reader"] = "od_inc_returned"]
    /\ UNCHANGED <<od, calls>>
    /\ UNCHANGED OdRangeVars

\* The reader compares its cursor with the sentinel.
OdCallEq ==
    /\ pc["reader"] \in OdIdle
    /\ calls["reader"] > 0
    /\ calls' = [calls EXCEPT !["reader"] = @ - 1]
    /\ pc' = [pc EXCEPT !["reader"] = "od_eq"]
    /\ UNCHANGED <<od, index, pending, current_, tokens, bridge>>
    /\ UNCHANGED OdRangeVars

\* move_iterator::operator==(sentinel): the value of a fresh evaluation of
\* the until sender.
OdEq ==
    /\ pc["reader"] = "od_eq"
    /\ \E u \in BOOLEAN :
         od' = [od EXCEPT !.eqResult = u, !.endBefore = od.sawEnd,
                          !.sawEnd = od.sawEnd \/ u]
    /\ pc' = [pc EXCEPT !["reader"] = "od_eq_returned"]
    /\ UNCHANGED <<index, pending, current_, tokens, bridge, calls>>
    /\ UNCHANGED OdRangeVars

OdSpecInit ==
    /\ buffer_ = <<>>
    /\ finished_ = FALSE
    /\ mutex_ = "free"
    /\ cv_ = {}
    /\ pc = [t \in Threads |-> IF t = "reader" THEN "od_begin" ELSE "absent"]
    /\ count = 0
    /\ index = 0
    /\ pending = 0
    /\ frame = NoFrame
    /\ current_ = NoFrame
    /\ consumed = <<>>
    /\ written = <<>>
    /\ lateAdds = {}
    /\ decodesAfterFinish = 0
    /\ mainDone = FALSE
    /\ tokens = <<>>
    /\ bridge = <<>>
    /\ calls = [t \in Threads |-> IF t = "reader" THEN MaxCalls + 1 ELSE 0]
    /\ od = OdInit
    /\ at_end_ = FALSE
    /\ timedOut = FALSE
    /\ variant = "ondemand_range"
    /\ cursors = <<>>
    /\ main_loop = LoopInit
    /\ stop_source = FALSE

OdNext ==
    \/ OdCallInc
    \/ OdIncUntil
    \/ OdFetchStart
    \/ OdDecoderRun
    \/ OdCallEq
    \/ OdEq

OdSpec == OdSpecInit /\ [][OdNext]_vars

----------------------------------------------------------------------------
(* buffering_range, in its two variants: "timeout" (ex02/buffering_range.hpp,*)
(* operator++ waits with cv_.wait_for(100ms) and the cursor has at_end_)   *)
(* and "plain" (the buffering_range of producer_range.hpp, operator++      *)
(* waits with cv_.wait and operator== returns finished_). A writer calls   *)
(* write() with the decoder's successive values, at most MaxCalls times;   *)
(* another thread calls finish() at any time; the reader runs              *)
(* the loop `for (it = begin(); it != end(); ++it)` and handles each item. *)

BufHistory == <<count, pending, frame, decodesAfterFinish, mainDone, tokens,
                bridge, od>>

\* condition_variable::notify_one: the possible sets of waiters afterwards.
notify_one(waiters) ==
    IF waiters = {} THEN {{}} ELSE {waiters \ {t} : t \in waiters}

\* write(): the buffer after `buffer_.push(item)`
write_push(q, fin, item) == Append(q, item)

\* operator++: the predicate of cv_.wait / cv_.wait_for
buf_ready(q, fin) == q # <<>> \/ fin

\* write(): std::lock_guard(mutex_)
BufWriteLock ==
    /\ calls["transfer"] > 0
    /\ Acquire("transfer", "write", "write", "write_locked")
    /\ calls' = [calls EXCEPT !["transfer"] = @ - 1]
    /\ UNCHANGED <<buffer_, finished_, cv_, index, current_, consumed, written,
                   lateAdds, at_end_, timedOut, variant, cursors, main_loop, stop_source>>
    /\ UNCHANGED BufHistory

\* write(), from the lock_guard to the end of the scope.
BufWrite ==
    /\ pc["transfer"] = "write_locked"
    /\ mutex_ = "transfer"
    /\ buffer_' = write_push(buffer_, finished_, index)
    /\ \E w \in notify_one(cv_) : cv_' = w
    /\ mutex_' = "free"
    /\ pc' = [pc EXCEPT !["transfer"] = "write"]
    /\ index' = index + 1
    /\ written' = Append(written, index)
    /\ lateAdds' = IF finished_ THEN lateAdds \cup {index} ELSE lateAdds
    /\ UNCHANGED <<finished_, current_, consumed, calls, at_end_, timedOut,
                   variant, cursors, main_loop, stop_source>>
    /\ UNCHANGED BufHistory

\* operator++: `if (at_end_) return *this;` (timeout variant), else the
\* std::unique_lock, also when the reader comes back from the wait.
BufIncLock ==
    IF variant = "timeout" /\ at_end_ /\ pc["reader"] = "inc"
      THEN /\ pc' = [pc EXCEPT !["reader"] = "eq"]
           /\ UNCHANGED <<buffer_, finished_, mutex_, cv_, index, current_,
                          consumed, written, lateAdds, calls, at_end_,
                          timedOut, variant, cursors, main_loop, stop_source>>
           /\ UNCHANGED BufHistory
      ELSE IncLock

\* operator++: the predicate is false and the time has not run out; the
\* reader blocks.
BufIncWait ==
    /\ pc["reader"] = "inc_locked"
    /\ ~buf_ready(buffer_, finished_)
    /\ ~timedOut
    /\ Block("reader", "inc_blocked")
    /\ UNCHANGED <<buffer_, finished_, index, current_, consumed, written,
                   lateAdds, calls, at_end_, timedOut, variant, cursors, main_loop, stop_source>>
    /\ UNCHANGED BufHistory

\* cv_.wait_for: the 100 ms run out while the reader is blocked; it stops
\* waiting and evaluates the predicate a last time once it has the mutex.
BufTimeout ==
    /\ variant = "timeout"
    /\ pc["reader"] = "inc_blocked"
    /\ "reader" \in cv_
    /\ cv_' = cv_ \ {"reader"}
    /\ timedOut' = TRUE
    /\ UNCHANGED <<buffer_, finished_, mutex_, pc, index, current_, consumed,
                   written, lateAdds, calls, at_end_, variant, cursors, main_loop, stop_source>>
    /\ UNCHANGED BufHistory

\* operator++: the wait returned true; load the head, or reset current_ (and
\* set at_end_ in the timeout variant).
BufInc ==
    /\ pc["reader"] = "inc_locked"
    /\ mutex_ = "reader"
    /\ buf_ready(buffer_, finished_)
    /\ IF buffer_ # <<>>
         THEN /\ current_' = Head(buffer_)
              /\ buffer_' = Tail(buffer_)
              /\ UNCHANGED at_end_
         ELSE /\ current_' = NoFrame
              /\ at_end_' = IF variant = "timeout" THEN TRUE ELSE at_end_
              /\ UNCHANGED buffer_
    /\ timedOut' = FALSE
    /\ mutex_' = "free"
    /\ pc' = [pc EXCEPT !["reader"] = "eq"]
    /\ UNCHANGED <<finished_, cv_, index, consumed, written, lateAdds, calls,
                   variant, cursors, main_loop, stop_source>>
    /\ UNCHANGED BufHistory

\* operator++ (timeout variant): wait_for returned false, "treat as end".
BufIncTimedOut ==
    /\ pc["reader"] = "inc_locked"
    /\ mutex_ = "reader"
    /\ timedOut
    /\ ~buf_ready(buffer_, finished_)
    /\ at_end_' = TRUE
    /\ current_' = NoFrame
    /\ timedOut' = FALSE
    /\ mutex_' = "free"
    /\ pc' = [pc EXCEPT !["reader"] = "eq"]
    /\ UNCHANGED <<buffer_, finished_, cv_, index, consumed, written, lateAdds,
                   calls, variant, cursors, main_loop, stop_source>>
    /\ UNCHANGED BufHistory

\* operator==(sentinel) of the timeout variant: `return at_end_;`, no lock.
BufEqAtEnd ==
    /\ variant = "timeout"
    /\ pc["reader"] = "eq"
    /\ pc' = [pc EXCEPT !["reader"] = IF at_end_ THEN "done" ELSE "deref"]
    /\ UNCHANGED <<buffer_, finished_, mutex_, cv_, index, current_, consumed,
                   written, lateAdds, calls, at_end_, timedOut, variant, cursors, main_loop, stop_source>>
    /\ UNCHANGED BufHistory

\* operator==(sentinel) of the plain variant: std::unique_lock(mutex_), then
\* `return parent_->finished_;` (ReaderEq).
BufEqLock ==
    /\ variant = "plain"
    /\ EqLock

BufInit ==
    /\ buffer_ = <<>>
    /\ finished_ = FALSE
    /\ mutex_ = "free"
    /\ cv_ = {}
    /\ pc = [t \in Threads |->
               CASE t = "transfer" -> "write"
                 [] t = "reader"   -> "inc"
                 [] t = "stopper"  -> "finish"]
    /\ count = 0
    /\ index = 0
    /\ pending = 0
    /\ frame = NoFrame
    /\ current_ = NoFrame
    /\ consumed = <<>>
    /\ written = <<>>
    /\ lateAdds = {}
    /\ decodesAfterFinish = 0
    /\ mainDone = FALSE
    /\ tokens = <<>>
    /\ bridge = <<>>
    /\ calls = [t \in Threads |-> IF t = "transfer" THEN MaxCalls ELSE 0]
    /\ od = OdInit
    /\ at_end_ = FALSE
    /\ timedOut = FALSE
    /\ variant \in {"timeout", "plain"}
    /\ cursors = <<>>
    /\ main_loop = LoopInit
    /\ stop_source = FALSE

BufNext ==
    \/ BufWriteLock
    \/ BufWrite
    \/ BufIncLock
    \/ BufIncWait
    \/ BufTimeout
    \/ BufInc
    \/ BufIncTimedOut
    \/ BufEqAtEnd
    \/ BufEqLock
    \/ ReaderEq
    \/ Process
    \/ StopperFinishLock
    \/ StopperFinish
    \/ SpuriousWakeup

BufSpec == BufInit /\ [][BufNext]_vars

----------------------------------------------------------------------------
(* producer_range with several cursors: the stand-alone producer of        *)
(* AddFinishSpec (MaxAdds items, then finish()) beside two threads that    *)
(* each got a cursor from begin() and run compare / advance on it          *)
(* concurrently. cursors[t].current_ is the current_ of the cursor of      *)
(* thread t, cursors[t].loaded the items its operator++ loaded, in order.  *)

Cursors == {"reader", "reader2"}

CursorVars == <<count, index, pending, frame, current_, consumed, written,
                lateAdds, decodesAfterFinish, mainDone, tokens, bridge, calls,
                od, at_end_, timedOut, variant, main_loop, stop_source>>

\* iterator::operator++: the buffer after `buffer_.pop()`
buffer_pop_kept(q) == q

buffer_pop(q) == Tail(q)

\* iterator::operator++: std::unique_lock(parent_->mutex_)
CursorIncLock ==
    /\ \E t \in Cursors : Acquire(t, "inc", "inc_blocked", "inc_locked")
    /\ UNCHANGED <<buffer_, finished_, cv_, cursors>>
    /\ UNCHANGED CursorVars

\* iterator::operator++: the predicate is false, the caller blocks.
CursorIncWait ==
    /\ \E t \in Cursors : IncWait(t)
    /\ UNCHANGED <<cursors, count, index, pending, frame, consumed, written,
                   lateAdds, decodesAfterFinish, mainDone, tokens, bridge,
                   calls, od, at_end_, timedOut, variant, main_loop,
                   stop_source>>

\* iterator::operator++: the predicate holds; move the head into the
\* cursor's current_ and pop it, or reset current_.
CursorInc ==
    /\ \E t \in Cursors :
         /\ pc[t] = "inc_locked"
         /\ mutex_ = t
         /\ inc_ready(buffer_, finished_)
         /\ IF buffer_ # <<>>
              THEN /\ cursors' = [cursors EXCEPT ![t] =
                                    [current_ |-> Head(buffer_),
                                     loaded |-> Append(@.loaded, Head(buffer_))]]
                   /\ buffer_' = buffer_pop(buffer_)
                   /\ cv_' = inc_notify(cv_)
              ELSE /\ cursors' = [cursors EXCEPT ![t].current_ = NoFrame]
                   /\ UNCHANGED <<buffer_, cv_>>
         /\ mutex_' = "free"
         /\ pc' = [pc EXCEPT ![t] = "eq"]
    /\ UNCHANGED finished_
    /\ UNCHANGED CursorVars

\* iterator::operator==(std::default_sentinel_t): std::unique_lock
CursorEqLock ==
    /\ \E t \in Cursors : Acquire(t, "eq", "eq", "eq_locked")
    /\ UNCHANGED <<buffer_, finished_, cv_, cursors>>
    /\ UNCHANGED CursorVars

\* iterator::operator==(std::default_sentinel_t); when it is not End the
\* thread uses *it and advances.
CursorEq ==
    /\ \E t \in Cursors : EqBody(t, "done", "inc")
    /\ UNCHANGED cursors
    /\ UNCHANGED CursorVars

CursorInit ==
    /\ buffer_ = <<>>
    /\ finished_ = FALSE
    /\ mutex_ = "free"
    /\ cv_ = {}
    /\ count = MaxAdds
    /\ pc = [t \in Cursors \cup {"transfer"} |->
               IF t = "transfer" THEN "add" ELSE "inc"]
    /\ index = 0
    /\ pending = 0
    /\ frame = 0
    /\ current_ = NoFrame
    /\ consumed = <<>>
    /\ written = <<>>
    /\ lateAdds = {}
    /\ decodesAfterFinish = 0
    /\ mainDone = FALSE
    /\ tokens = <<>>
    /\ bridge = <<>>
    /\ calls = [t \in Threads |-> 0]
    /\ od = OdInit
    /\ at_end_ = FALSE
    /\ timedOut = FALSE
    /\ variant = "producer_range"
    /\ cursors = [t \in Cursors |-> [current_ |-> NoFrame, loaded |-> <<>>]]
    /\ main_loop = LoopInit
    /\ stop_source = FALSE

CursorNext ==
    \/ DriverAddLock
    \/ DriverAdd
    \/ DriverFinishLock
    \/ DriverFinish
    \/ CursorIncLock
    \/ CursorIncWait
    \/ CursorInc
    \/ CursorEqLock
    \/ CursorEq
    \/ SpuriousWakeup

CursorSpec == CursorInit /\ [][CursorNext]_vars

----------------------------------------------------------------------------
(* ondemand_range, the variant with a finish flag (ex02/ondemand_range.hpp):*)
(* finished_ is a std::atomic_bool and there is no mutex. The reader runs  *)
(* the loop `for (it = begin(); it != end(); ++it)` and handles each item; *)
(* another thread calls finish() at any time. The item sender is           *)
(* async_decode_frame on the hw_decoder. The reader fetches at most        *)
(* MaxFetches frames.                                                      *)

OdFinishVars == <<buffer_, mutex_, cv_, count, written, lateAdds, mainDone,
                  calls, od, at_end_, timedOut, variant, cursors, main_loop,
                  stop_source>>

\* operator++: sync_wait(any_item_sender_provider_()) connects and starts the
\* decode operation, which spawns one task on the decoder's context.
OdFinishFetchStart ==
    /\ pc["reader"] = "inc"
    /\ index < MaxFetches
    /\ tokens' = decode_next_frame(tokens, Len(bridge) + 1)
    /\ pending' = Len(tokens')
    /\ bridge' = Append(bridge, [init |-> Len(tokens') - Len(tokens), cb |-> 0,
                                 done |-> 0, cbFrame |-> NoFrame,
                                 rcvFrame |-> NoFrame, viol |-> FALSE])
    /\ decodesAfterFinish' =
         IF pc["stopper"] = "done" THEN decodesAfterFinish + 1
                                   ELSE decodesAfterFinish
    /\ pc' = [pc EXCEPT !["reader"] = "fetch_wait"]
    /\ UNCHANGED <<finished_, index, frame, current_, consumed>>
    /\ UNCHANGED OdFinishVars

\* The decoder's task builds the frame with index++ and calls on_frame, which
\* completes sync_wait's receiver with the frame.
OdFinishDecoderRun ==
    /\ pending > 0
    /\ pc["reader"] = "fetch_wait"
    /\ frame' = on_frame(index)
    /\ index' = index + 1
    /\ tokens' = Tail(tokens)
    /\ pending' = Len(tokens')
    /\ bridge' = [bridge EXCEPT ![Head(tokens)] =
                     [@ EXCEPT !.cb = @ + 1, !.done = @ + 1,
                               !.cbFrame = index, !.rcvFrame = on_frame(index)]]
    /\ pc' = [pc EXCEPT !["reader"] = "fetch_done"]
    /\ UNCHANGED <<finished_, current_, consumed, decodesAfterFinish>>
    /\ UNCHANGED OdFinishVars

\* operator++: sync_wait returns and the frame is stored in current_.
OdFinishInc ==
    /\ pc["reader"] = "fetch_done"
    /\ current_' = frame
    /\ frame' = NoFrame
    /\ pc' = [pc EXCEPT !["reader"] = "eq"]
    /\ UNCHANGED <<finished_, index, pending, tokens, bridge, consumed,
                   decodesAfterFinish>>
    /\ UNCHANGED OdFinishVars

\* operator==(std::default_sentinel_t): `return parent_->finished_.load();`
OdFinishEq ==
    /\ pc["reader"] = "eq"
    /\ pc' = [pc EXCEPT !["reader"] = IF finished_ THEN "done" ELSE "deref"]
    /\ UNCHANGED <<finished_, index, pending, tokens, bridge, frame, current_,
                   consumed, decodesAfterFinish>>
    /\ UNCHANGED OdFinishVars

\* finish(): `finished_.store(true);`
OdFinish ==
    /\ pc["stopper"] = "finish"
    /\ finished_' = TRUE
    /\ pc' = [pc EXCEPT !["stopper"] = "done"]
    /\ UNCHANGED <<index, pending, tokens, bridge, frame, current_, consumed,
                   decodesAfterFinish>>
    /\ UNCHANGED OdFinishVars

OdFinishInit ==
    /\ buffer_ = <<>>
    /\ finished_ = FALSE
    /\ mutex_ = "free"
    /\ cv_ = {}
    /\ pc = [t \in Threads |->
               CASE t = "transfer" -> "absent"
                 [] t = "reader"   -> "inc"
                 [] t = "stopper"  -> "finish"]
    /\ count = 0
    /\ index = 0
    /\ pending = 0
    /\ frame = NoFrame
    /\ current_ = NoFrame
    /\ consumed = <<>>
    /\ written = <<>>
    /\ lateAdds = {}
    /\ decodesAfterFinish = 0
    /\ mainDone = FALSE
    /\ tokens = <<>>
    /\ bridge = <<>>
    /\ calls = [t \in Threads |-> 0]
    /\ od = OdInit
    /\ at_end_ = FALSE
    /\ timedOut = FALSE
    /\ variant = "ondemand_finish"
    /\ cursors = <<>>
    /\ main_loop = LoopInit
    /\ stop_source = FALSE

OdFinishNext ==
    \/ OdFinishFetchStart
    \/ OdFinishDecoderRun
    \/ OdFinishInc
    \/ OdFinishEq
    \/ Process
    \/ OdFinish

OdFinishSpec == OdFinishInit /\ [][OdFinishNext]_vars

----------------------------------------------------------------------------
(* hw_decoder alone: two threads call decode_next_frame, each at most      *)
(* MaxCalls times and at any time, as the loop of the buffering example    *)
(* does from main; the decoder's single_thread_context runs the spawned    *)
(* tasks. bridge has one record per call, in call order, with the caller   *)
(* in `by`; consumed lists the calls in the order of their callbacks.      *)

Initiators == {"transfer", "reader"}

DecoderVars == <<buffer_, finished_, mutex_, cv_, pc, count, pending, frame,
                 current_, written, lateAdds, decodesAfterFinish, mainDone,
                 od, at_end_, timedOut, variant, cursors, main_loop,
                 stop_source>>

\* exec::single_thread_context: the position in its queue of the task that
\* runs next.
next_task_last(q) == Len(q)

next_task(q) == 1

\* hw_decoder::decode_next_frame, called by one of the threads: one task is
\* spawned on the decoder's context.
DecoderCall ==
    /\ \E t \in Initiators :
         /\ calls[t] > 0
         /\ calls' = [calls EXCEPT ![t] = @ - 1]
         /\ bridge' = Append(bridge, [by |-> t, cb |-> 0, cbFrame |-> NoFrame])
    /\ tokens' = decode_next_frame(tokens, Len(bridge) + 1)
    /\ UNCHANGED <<index, consumed>>
    /\ UNCHANGED DecoderVars

\* The decoder's thread runs its next task: on_frame_cb(clientData, index++).
DecoderCallback ==
    /\ tokens # <<>>
    /\ LET n == next_task(tokens)
       IN /\ bridge' = [bridge EXCEPT ![tokens[n]] =
                           [@ EXCEPT !.cb = @ + 1, !.cbFrame = index]]
          /\ consumed' = Append(consumed, tokens[n])
          /\ tokens' = SubSeq(tokens, 1, n - 1) \o
                       SubSeq(tokens, n + 1, Len(tokens))
    /\ index' = index + 1
    /\ UNCHANGED calls
    /\ UNCHANGED DecoderVars

DecoderInit ==
    /\ buffer_ = <<>>
    /\ finished_ = FALSE
    /\ mutex_ = "free"
    /\ cv_ = {}
    /\ pc = [t \in Threads |-> IF t \in Initiators THEN "calling" ELSE "absent"]
    /\ count = 0
    /\ index = 0
    /\ pending = 0
    /\ frame = NoFrame
    /\ current_ = NoFrame
    /\ consumed = <<>>
    /\ written = <<>>
    /\ lateAdds = {}
    /\ decodesAfterFinish = 0
    /\ mainDone = FALSE
    /\ tokens = <<>>
    /\ bridge = <<>>
    /\ calls = [t \in Threads |-> IF t \in Initiators THEN MaxCalls ELSE 0]
    /\ od = OdInit
    /\ at_end_ = FALSE
    /\ timedOut = FALSE
    /\ variant = "hw_decoder"
    /\ cursors = <<>>
    /\ main_loop = LoopInit
    /\ stop_source = FALSE

DecoderNext ==
    \/ DecoderCall
    \/ DecoderCallback

DecoderSpec == DecoderInit /\ [][DecoderNext]_vars

----------------------------------------------------------------------------
(* ex01: frame_index_cache. Its queue, mutex and signal are the variables  *)
(* buffer_, mutex_ and cv_ (variant = "frame_index_cache"); finished_ is   *)
(* not used. In CacheSpec one thread calls write() MaxItems times with the *)
(* values 0, 1, ... and a concurrent reader calls read() MaxItems times;   *)
(* calls[t] is the number of calls thread t has still to complete.         *)

\* read(): the predicate of signal.wait
cache_ready(q) == q # <<>>

\* write(): signal.notify_all()
cache_write_notify(waiters) == notify_all(waiters)

\* write(), from the unique_lock to the end of the scope.
CacheWriteBody(t, item, next) ==
    /\ pc[t] = "write_locked"
    /\ mutex_ = t
    /\ buffer_' = Append(buffer_, item)
    /\ cv_' = cache_write_notify(cv_)
    /\ mutex_' = "free"
    /\ pc' = [pc EXCEPT ![t] = next]

\* read(): the predicate is false, the caller blocks.
CacheReadWait(t) ==
    /\ pc[t] = "read_locked"
    /\ ~cache_ready(buffer_)
    /\ Block(t, "read_blocked")
    /\ UNCHANGED buffer_

\* read(): the predicate holds; take the front, pop, notify_all, return it.
CacheReadBody(t, next) ==
    /\ pc[t] = "read_locked"
    /\ mutex_ = t
    /\ cache_ready(buffer_)
    /\ current_' = Head(buffer_)
    /\ buffer_' = Tail(buffer_)
    /\ cv_' = notify_all(cv_)
    /\ mutex_' = "free"
    /\ pc' = [pc EXCEPT ![t] = next]

CacheVars == <<finished_, count, pending, frame, lateAdds, decodesAfterFinish,
               mainDone, tokens, bridge, od, at_end_, timedOut, variant,
               cursors, main_loop, stop_source>>

\* write(): std::unique_lock(mutex)
CacheWriteLock ==
    /\ calls["transfer"] > 0
    /\ Acquire("transfer", "write", "write", "write_locked")
    /\ written' = Append(written, index)
    /\ UNCHANGED <<buffer_, cv_, index, current_, consumed, calls>>
    /\ UNCHANGED CacheVars

CacheWrite ==
    /\ CacheWriteBody("transfer", index, "write")
    /\ index' = index + 1
    /\ calls' = [calls EXCEPT !["transfer"] = @ - 1]
    /\ UNCHANGED <<current_, consumed, written>>
    /\ UNCHANGED CacheVars

\* read(): std::unique_lock(mutex), also when the reader comes back from the
\* wait.
CacheReadLock ==
    /\ Acquire("reader", "read", "read_blocked", "read_locked")
    /\ UNCHANGED <<buffer_, cv_, index, current_, consumed, written, calls>>
    /\ UNCHANGED CacheVars

CacheReaderWait ==
    /\ CacheReadWait("reader")
    /\ UNCHANGED <<index, current_, consumed, written, calls>>
    /\ UNCHANGED CacheVars

CacheRead ==
    /\ CacheReadBody("reader",
                     IF calls["reader"] - 1 = 0 THEN "done" ELSE "read")
    /\ consumed' = Append(consumed, Head(buffer_))
    /\ calls' = [calls EXCEPT !["reader"] = @ - 1]
    /\ UNCHANGED <<index, written>>
    /\ UNCHANGED CacheVars

CacheInit ==
    /\ buffer_ = <<>>
    /\ finished_ = FALSE
    /\ mutex_ = "free"
    /\ cv_ = {}
    /\ pc = [t \in Threads |->
               CASE t = "transfer" -> "write"
                 [] t = "reader"   -> "read"
                 [] t = "stopper"  -> "absent"]
    /\ count = 0
    /\ index = 0
    /\ pending = 0
    /\ frame = NoFrame
    /\ current_ = NoFrame
    /\ consumed = <<>>
    /\ written = <<>>
    /\ lateAdds = {}
    /\ decodesAfterFinish = 0
    /\ mainDone = FALSE
    /\ tokens = <<>>
    /\ bridge = <<>>
    /\ calls = [t \in Threads |-> IF t = "stopper" THEN 0 ELSE MaxItems]
    /\ od = OdInit
    /\ at_end_ = FALSE
    /\ timedOut = FALSE
    /\ variant = "frame_index_cache"
    /\ cursors = <<>>
    /\ main_loop = LoopInit
    /\ stop_source = FALSE

CacheWriterNext ==
    \/ CacheWriteLock
    \/ CacheWrite

CacheReaderNext ==
    \/ CacheReadLock
    \/ CacheReaderWait
    \/ CacheRead

CacheNext ==
    \/ CacheWriteLock
    \/ CacheWrite
    \/ CacheReadLock
    \/ CacheReaderWait
    \/ CacheRead
    \/ SpuriousWakeup

\* Fair scheduling of the two threads, as in LiveSpec; nothing is assumed
\* about spurious wake-ups.
CacheSpec ==
    /\ CacheInit
    /\ [][CacheNext]_vars
    /\ SF_vars(CacheWriterNext)
    /\ SF_vars(CacheReaderNext)

----------------------------------------------------------------------------
(* ex01 main: frame_decode_and_cache ("transfer") and frame_reader         *)
(* ("reader") are spawned on main_scope and start on the two threads of    *)
(* io_pool; the main thread ("main") runs main_loop.run() and then         *)
(* sync_wait(main_scope.on_empty()).                                       *)
(*                                                                         *)
(* The producer loop continues on the decoder's thread after each          *)
(* callback. The reader loop calls read() on the thread it is on, moves to *)
(* the main loop with continues_on(main_sched) and, from its second        *)
(* iteration on, calls read() inside the main-loop task, so the main       *)
(* thread is then inside that task (main_loop.busy) until the next         *)
(* continues_on has queued a task.                                         *)
(*                                                                         *)
(* stdexec, which is not part of src/, is modelled by its documented       *)
(* behaviour: run_loop::run() executes queued tasks and returns when       *)
(* finish() was called and no task is queued; a task queued later is never *)
(* executed; a task of run_loop or static_thread_pool completes with       *)
(* set_stopped instead of set_value when the stop token of its receiver,   *)
(* here the one of main_scope, has a stop request; async_scope::on_empty   *)
(* completes when every spawned sender has completed.                      *)

\* const int limit (part_000:129 sets 100000); `count` starts at limit.
limit == MaxCount

Ex01Vars == <<finished_, pending, lateAdds, decodesAfterFinish, calls, od,
              at_end_, timedOut, variant, cursors>>

\* then([&count] { return --count == 0; }): the value of count afterwards
count_dec_twice(c) == c - 2

count_dec(c) == c - 1

\* io_sched.schedule() of frame_decode_and_cache completes on a pool thread.
Ex01ProducerStart ==
    /\ pc["transfer"] = "sched"
    /\ pc' = [pc EXCEPT !["transfer"] =
                IF stop_source THEN "stopped" ELSE "decode"]
    /\ UNCHANGED <<buffer_, mutex_, cv_, count, index, frame, current_,
                   consumed, written, mainDone, tokens, bridge, main_loop,
                   stop_source>>
    /\ UNCHANGED Ex01Vars

\* decode_frame_op_state::start -> hw_decoder::decode_next_frame
Ex01DecodeStart ==
    /\ pc["transfer"] = "decode"
    /\ tokens' = decode_next_frame(tokens, Len(bridge) + 1)
    /\ bridge' = Append(bridge, [init |-> Len(tokens') - Len(tokens), cb |-> 0,
                                 done |-> 0, cbFrame |-> NoFrame,
                                 rcvFrame |-> NoFrame, viol |-> FALSE])
    /\ pc' = [pc EXCEPT !["transfer"] = "decode_wait"]
    /\ UNCHANGED <<buffer_, mutex_, cv_, count, index, frame, current_,
                   consumed, written, mainDone, main_loop, stop_source>>
    /\ UNCHANGED Ex01Vars

\* The decoder's task: on_frame_cb(clientData, index++); on_frame completes
\* the receiver with the frame index.
Ex01DecoderRun ==
    /\ tokens # <<>>
    /\ pc["transfer"] = "decode_wait"
    /\ frame' = on_frame(index)
    /\ index' = index + 1
    /\ tokens' = Tail(tokens)
    /\ bridge' = [bridge EXCEPT ![Head(tokens)] =
                     [@ EXCEPT !.cb = @ + 1, !.done = @ + 1,
                               !.cbFrame = index, !.rcvFrame = on_frame(index)]]
    /\ pc' = [pc EXCEPT !["transfer"] = "write"]
    /\ UNCHANGED <<buffer_, mutex_, cv_, count, current_, consumed, written,
                   mainDone, main_loop, stop_source>>
    /\ UNCHANGED Ex01Vars

\* frame_cache.write(frameIndex): std::unique_lock(mutex)
Ex01WriteLock ==
    /\ Acquire("transfer", "write", "write", "write_locked")
    /\ written' = Append(written, frame)
    /\ UNCHANGED <<buffer_, cv_, count, index, frame, current_, consumed,
                   mainDone, tokens, bridge, main_loop, stop_source>>
    /\ UNCHANGED Ex01Vars

Ex01Write ==
    /\ CacheWriteBody("transfer", frame, "count")
    /\ frame' = NoFrame
    /\ UNCHANGED <<count, index, current_, consumed, written, mainDone, tokens,
                   bridge, main_loop, stop_source>>
    /\ UNCHANGED Ex01Vars

\* then([&count] { return --count == 0; }) | exec::repeat_effect_until()
Ex01CountDec ==
    /\ pc["transfer"] = "count"
    /\ count' = count_dec(count)
    /\ pc' = [pc EXCEPT !["transfer"] =
                IF count' = 0 THEN "loop_finish" ELSE "decode"]
    /\ UNCHANGED <<buffer_, mutex_, cv_, index, frame, current_, consumed,
                   written, mainDone, tokens, bridge, main_loop, stop_source>>
    /\ UNCHANGED Ex01Vars

\* main_loop.finish()
Ex01LoopFinish ==
    /\ pc["transfer"] = "loop_finish"
    /\ main_loop' = [main_loop EXCEPT !.state =
                        IF @ = "running" THEN "finishing" ELSE @]
    /\ pc' = [pc EXCEPT !["transfer"] = "request_stop"]
    /\ UNCHANGED <<buffer_, mutex_, cv_, count, index, frame, current_,
                   consumed, written, mainDone, tokens, bridge, stop_source>>
    /\ UNCHANGED Ex01Vars

\* main_scope.request_stop(); the producer's sender then completes.
Ex01RequestStop ==
    /\ pc["transfer"] = "request_stop"
    /\ stop_source' = TRUE
    /\ pc' = [pc EXCEPT !["transfer"] = "done"]
    /\ UNCHANGED <<buffer_, mutex_, cv_, count, index, frame, current_,
                   consumed, written, mainDone, tokens, bridge, main_loop>>
    /\ UNCHANGED Ex01Vars

\* io_sched.schedule() of frame_reader completes on a pool thread.
Ex01ReaderStart ==
    /\ pc["reader"] = "sched"
    /\ pc' = [pc EXCEPT !["reader"] = IF stop_source THEN "stopped" ELSE "read"]
    /\ UNCHANGED <<buffer_, mutex_, cv_, count, index, frame, current_,
                   consumed, written, mainDone, tokens, bridge, main_loop,
                   stop_source>>
    /\ UNCHANGED Ex01Vars

\* asyncRead -> frame_cache->read(): std::unique_lock(mutex)
Ex01ReadLock ==
    /\ Acquire("reader", "read", "read_blocked", "read_locked")
    /\ UNCHANGED <<buffer_, cv_, count, index, frame, current_, consumed,
                   written, mainDone, tokens, bridge, main_loop, stop_source>>
    /\ UNCHANGED Ex01Vars

Ex01ReadWait ==
    /\ CacheReadWait("reader")
    /\ UNCHANGED <<count, index, frame, current_, consumed, written, mainDone,
                   tokens, bridge, main_loop, stop_source>>
    /\ UNCHANGED Ex01Vars

Ex01Read ==
    /\ CacheReadBody("reader", "continues_on")
    /\ UNCHANGED <<count, index, frame, consumed, written, mainDone, tokens,
                   bridge, main_loop, stop_source>>
    /\ UNCHANGED Ex01Vars

\* continues_on(main_sched): a task is queued on main_loop; when the reader
\* was running inside a main-loop task, that task returns to run().
Ex01ContinuesOn ==
    /\ pc["reader"] = "continues_on"
    /\ main_loop' = [main_loop EXCEPT !.tasks = @ + 1, !.busy = FALSE]
    /\ pc' = [pc EXCEPT !["reader"] = "queued"]
    /\ UNCHANGED <<buffer_, mutex_, cv_, count, index, frame, current_,
                   consumed, written, mainDone, tokens, bridge, stop_source>>
    /\ UNCHANGED Ex01Vars

\* main_loop.run() takes the queued task and executes it: set_stopped when
\* main_scope has a stop request, else the `then` that processes the frame
\* index and repeat_effect_until, which either completes or starts the next
\* read() inside this task.
Ex01LoopTask ==
    /\ pc["main"] = "run"
    /\ main_loop.tasks > 0
    /\ ~main_loop.busy
    /\ pc["reader"] = "queued"
    /\ IF stop_source
         THEN /\ pc' = [pc EXCEPT !["reader"] = "stopped"]
              /\ main_loop' = [main_loop EXCEPT !.tasks = @ - 1]
              /\ UNCHANGED consumed
         ELSE /\ consumed' = Append(consumed, current_)
              /\ pc' = [pc EXCEPT !["reader"] =
                          IF current_ = limit - 1 THEN "done" ELSE "read"]
              /\ main_loop' = [main_loop EXCEPT !.tasks = @ - 1,
                                                !.busy = current_ # limit - 1]
    /\ UNCHANGED <<buffer_, mutex_, cv_, count, index, frame, current_,
                   written, mainDone, tokens, bridge, stop_source>>
    /\ UNCHANGED Ex01Vars

\* main_loop.run() returns: finish() was called and no task is queued.
Ex01RunReturn ==
    /\ pc["main"] = "run"
    /\ main_loop.tasks = 0
    /\ ~main_loop.busy
    /\ main_loop.state = "finishing"
    /\ main_loop' = [main_loop EXCEPT !.state = "finished"]
    /\ pc' = [pc EXCEPT !["main"] = "sync_wait"]
    /\ UNCHANGED <<buffer_, mutex_, cv_, count, index, frame, current_,
                   consumed, written, mainDone, tokens, bridge, stop_source>>
    /\ UNCHANGED Ex01Vars

\* stdexec::sync_wait(main_scope.on_empty()) returns; main returns.
Ex01MainReturn ==
    /\ pc["main"] = "sync_wait"
    /\ pc["transfer"] \in {"done", "stopped"}
    /\ pc["reader"] \in {"done", "stopped"}
    /\ mainDone' = TRUE
    /\ pc' = [pc EXCEPT !["main"] = "returned"]
    /\ UNCHANGED <<buffer_, mutex_, cv_, count, index, frame, current_,
                   consumed, written, tokens, bridge, main_loop, stop_source>>
    /\ UNCHANGED Ex01Vars

Ex01Init ==
    /\ buffer_ = <<>>
    /\ finished_ = FALSE
    /\ mutex_ = "free"
    /\ cv_ = {}
    /\ pc = [t \in {"transfer", "reader", "main"} |->
               IF t = "main" THEN "run" ELSE "sched"]
    /\ count = limit
    /\ index = 0
    /\ pending = 0
    /\ frame = NoFrame
    /\ current_ = NoFrame
    /\ consumed = <<>>
    /\ written = <<>>
    /\ lateAdds = {}
    /\ decodesAfterFinish = 0
    /\ mainDone = FALSE
    /\ tokens = <<>>
    /\ bridge = <<>>
    /\ calls = [t \in Threads |-> 0]
    /\ od = OdInit
    /\ at_end_ = FALSE
    /\ timedOut = FALSE
    /\ variant = "frame_index_cache"
    /\ cursors = <<>>
    /\ main_loop = LoopInit
    /\ stop_source = FALSE

Ex01Next ==
    \/ Ex01ProducerStart
    \/ Ex01DecodeStart
    \/ Ex01DecoderRun
    \/ Ex01WriteLock
    \/ Ex01Write
    \/ Ex01CountDec
    \/ Ex01LoopFinish
    \/ Ex01RequestStop
    \/ Ex01ReaderStart
    \/ Ex01ReadLock
    \/ Ex01ReadWait
    \/ Ex01Read
    \/ Ex01ContinuesOn
    \/ Ex01LoopTask
    \/ Ex01RunReturn
    \/ Ex01MainReturn
    \/ SpuriousWakeup

Ex01Spec == Ex01Init /\ [][Ex01Next]_vars

----------------------------------------------------------------------------
(* ondemand_range with an until predicate, read by the loop                *)
(* `for (it = begin(); it != end(); ++it)` that dereferences the cursor    *)
(* once per round. operator++ is the one of OdSpec (OdIncUntil,            *)
(* OdFetchStart, OdDecoderRun); the reader makes at most MaxCalls + 1     *)
(* calls of it. consumed lists the frames operator* returned. operator* moves *)
(* the frame out of current_, which stays engaged with the moved-from      *)
(* frame (same index). operator* on a cursor that never loaded a frame     *)
(* reads an empty std::optional, which is undefined: the read ends the     *)
(* program or returns any frame value.                                     *)

\* begin() (the constructor's `++(*this)`) and `++it`.
OdLoopInc ==
    /\ pc["reader"] \in {"od_begin", "od_advance"}
    /\ calls["reader"] > 0
    /\ calls' = [calls EXCEPT !["reader"] = @ - 1]
    /\ od' = [od EXCEPT !.evals = 0, !.fetches = 0, !.before = current_]
    /\ pc' = [pc EXCEPT !["reader"] = "od_inc_until"]
    /\ UNCHANGED <<index, pending, current_, tokens, bridge>>
    /\ UNCHANGED OdRangeVars

\* `it != end()`: operator==(sentinel) evaluates the until sender afresh.
OdLoopCompare ==
    /\ pc["reader"] = "od_inc_returned"
    /\ \E u \in BOOLEAN :
         /\ od' = [od EXCEPT !.eqResult = u, !.endBefore = od.sawEnd,
                             !.sawEnd = od.sawEnd \/ u]
         /\ pc' = [pc EXCEPT !["reader"] = IF u THEN "done" ELSE "od_deref"]
    /\ UNCHANGED <<index, pending, current_, tokens, bridge, calls>>
    /\ UNCHANGED OdRangeVars

\* operator*: `return std::move(*current_);`
OdLoopDeref ==
    /\ pc["reader"] = "od_deref"
    /\ IF current_ # NoFrame
         THEN /\ consumed' = Append(consumed, current_)
              /\ pc' = [pc EXCEPT !["reader"] = "od_advance"]
         ELSE \/ /\ pc' = [pc EXCEPT !["reader"] = "crashed"]
                 /\ UNCHANGED consumed
              \/ /\ \E garbage \in {NoFrame} \cup (0..index) :
                      consumed' = Append(consumed, garbage)
                 /\ pc' = [pc EXCEPT !["reader"] = "od_advance"]
    /\ UNCHANGED <<buffer_, finished_, mutex_, cv_, count, index, pending,
                   frame, current_, written, lateAdds, decodesAfterFinish,
                   mainDone, tokens, bridge, calls, od, at_end_, timedOut,
                   variant, cursors, main_loop, stop_source>>

OdLoopInit ==
    /\ buffer_ = <<>>
    /\ finished_ = FALSE
    /\ mutex_ = "free"
    /\ cv_ = {}
    /\ pc = [t \in Threads |-> IF t = "reader" THEN "od_begin" ELSE "absent"]
    /\ count = 0
    /\ index = 0
    /\ pending = 0
    /\ frame = NoFrame
    /\ current_ = NoFrame
    /\ consumed = <<>>
    /\ written = <<>>
    /\ lateAdds = {}
    /\ decodesAfterFinish = 0
    /\ mainDone = FALSE
    /\ tokens = <<>>
    /\ bridge = <<>>
    /\ calls = [t \in Threads |-> IF t = "reader" THEN MaxCalls + 1 ELSE 0]
    /\ od = OdInit
    /\ at_end_ = FALSE
    /\ timedOut = FALSE
    /\ variant = "ondemand_range"
    /\ cursors = <<>>
    /\ main_loop = LoopInit
    /\ stop_source = FALSE

OdLoopNext ==
    \/ OdLoopInc
    \/ OdIncUntil
    \/ OdFetchStart
    \/ OdDecoderRun
    \/ OdLoopCompare
    \/ OdLoopDeref

OdLoopSpec == OdLoopInit /\ [][OdLoopNext]_vars

----------------------------------------------------------------------------
(* The buffering example's main (either variant of buffering_range). The   *)
(* main thread is "reader": it calls decode_next_frame decode_calls times  *)
(* with a callback that writes into `range`, then runs the loop of         *)
(* exec::iterate over range | take(take_count), and returns: the locals    *)
(* are destroyed in reverse order of declaration, `range` first and        *)
(* `decoder`, whose destructor waits for the decoder's tasks, last. The    *)
(* decoder's thread is "transfer"; each of its tasks calls the callback.   *)
(* `count` is the length left in take's counted_iterator. lateAdds holds   *)
(* the values whose callback ran on the destroyed range; such a write is   *)
(* undefined: it ends the program or appears to work.                      *)
(* std::views::take is modelled by the standard's definition: ++ advances  *)
(* the underlying cursor and decrements the length, and the comparison     *)
(* with the sentinel is `length == 0 || base == end`.                      *)

\* `range` has been destroyed.
RangeDead == pc["reader"] \in {"range_destroyed", "returned"}

BufMainVars == <<finished_, pending, frame, written, decodesAfterFinish,
                 mainDone, od, variant, cursors, main_loop, stop_source>>

\* decoder.decode_next_frame(&client_data, callback): one task is spawned.
MainDecodeCall ==
    /\ pc["reader"] = "calling"
    /\ tokens' = decode_next_frame(tokens, Len(bridge) + 1)
    /\ bridge' = Append(bridge, [by |-> "reader", cb |-> 0, cbFrame |-> NoFrame])
    /\ calls' = [calls EXCEPT !["reader"] = @ - 1]
    /\ pc' = [pc EXCEPT !["reader"] =
                IF calls["reader"] - 1 = 0 THEN "inc" ELSE "calling"]
    /\ UNCHANGED <<buffer_, mutex_, cv_, count, index, current_, consumed,
                   lateAdds, at_end_, timedOut>>
    /\ UNCHANGED BufMainVars

\* The decoder's task calls the callback: range.write(value) takes the lock.
CallbackWriteLock ==
    /\ tokens # <<>>
    /\ ~RangeDead
    /\ Acquire("transfer", "write", "write", "write_locked")
    /\ UNCHANGED <<buffer_, cv_, count, index, current_, consumed, lateAdds,
                   tokens, bridge, calls, at_end_, timedOut>>
    /\ UNCHANGED BufMainVars

\* range.write(value), from the lock_guard to the end of the scope; the
\* task is done.
CallbackWrite ==
    /\ pc["transfer"] = "write_locked"
    /\ mutex_ = "transfer"
    /\ buffer_' = write_push(buffer_, finished_, index)
    /\ \E w \in notify_one(cv_) : cv_' = w
    /\ mutex_' = "free"
    /\ pc' = [pc EXCEPT !["transfer"] = "write"]
    /\ index' = index + 1
    /\ bridge' = [bridge EXCEPT ![Head(tokens)] =
                     [@ EXCEPT !.cb = @ + 1, !.cbFrame = index]]
    /\ tokens' = Tail(tokens)
    /\ lateAdds' = IF RangeDead THEN lateAdds \cup {index} ELSE lateAdds
    /\ UNCHANGED <<count, current_, consumed, calls, at_end_, timedOut>>
    /\ UNCHANGED BufMainVars

\* The decoder's task calls the callback after `range` was destroyed: the
\* write uses a destroyed mutex and queue.
CallbackWriteDead ==
    /\ tokens # <<>>
    /\ RangeDead
    /\ pc["transfer"] = "write"
    /\ lateAdds' = lateAdds \cup {index}
    /\ index' = index + 1
    /\ bridge' = [bridge EXCEPT ![Head(tokens)] =
                     [@ EXCEPT !.cb = @ + 1, !.cbFrame = index]]
    /\ tokens' = Tail(tokens)
    /\ \E outcome \in {"write", "crashed"} :
         pc' = [pc EXCEPT !["transfer"] = outcome]
    /\ UNCHANGED <<buffer_, mutex_, cv_, count, current_, consumed, calls,
                   at_end_, timedOut>>
    /\ UNCHANGED BufMainVars

\* take's sentinel: the length is 0, the loop ends without comparing the
\* underlying cursor.
TakeEnd ==
    /\ pc["reader"] = "eq"
    /\ count = 0
    /\ pc' = [pc EXCEPT !["reader"] = "done"]
    /\ UNCHANGED <<buffer_, mutex_, cv_, count, index, current_, consumed,
                   lateAdds, tokens, bridge, calls, at_end_, timedOut>>
    /\ UNCHANGED BufMainVars

\* take's sentinel, length not 0: operator==(sentinel) of the timeout variant.
TakeEqAtEnd ==
    /\ count > 0
    /\ BufEqAtEnd

\* take's sentinel, length not 0: operator==(sentinel) of the plain variant.
TakeEqLock ==
    /\ count > 0
    /\ BufEqLock

\* The lambda of transform_each gets *it; then `++it` of the counted
\* iterator advances the underlying cursor and decrements the length (the
\* length is local to the main thread; it is decremented here, ahead of the
\* underlying operator++).
TakeProcess ==
    /\ pc["reader"] = "deref"
    /\ consumed' = Append(consumed, current_)
    /\ count' = count - 1
    /\ pc' = [pc EXCEPT !["reader"] = "inc"]
    /\ UNCHANGED <<buffer_, mutex_, cv_, index, current_, lateAdds, tokens,
                   bridge, calls, at_end_, timedOut>>
    /\ UNCHANGED BufMainVars

\* main returns: `range` is destroyed.
MainDestroyRange ==
    /\ pc["reader"] = "done"
    /\ pc' = [pc EXCEPT !["reader"] = "range_destroyed"]
    /\ UNCHANGED <<buffer_, mutex_, cv_, count, index, current_, consumed,
                   lateAdds, tokens, bridge, calls, at_end_, timedOut>>
    /\ UNCHANGED BufMainVars

\* ~hw_decoder: sync_wait(scope.on_empty()) returns when every task is done.
MainDestroyDecoder ==
    /\ pc["reader"] = "range_destroyed"
    /\ tokens = <<>>
    /\ pc["transfer"] = "write"
    /\ pc' = [pc EXCEPT !["reader"] = "returned"]
    /\ UNCHANGED <<buffer_, mutex_, cv_, count, index, current_, consumed,
                   lateAdds, tokens, bridge, calls, at_end_, timedOut>>
    /\ UNCHANGED BufMainVars

BufMainInit ==
    /\ buffer_ = <<>>
    /\ finished_ = FALSE
    /\ mutex_ = "free"
    /\ cv_ = {}
    /\ pc = [t \in Threads |->
               CASE t = "transfer" -> "write"
                 [] t = "reader"   -> "calling"
                 [] t = "stopper"  -> "absent"]
    /\ count = take_count
    /\ index = 0
    /\ pending = 0
    /\ frame = NoFrame
    /\ current_ = NoFrame
    /\ consumed = <<>>
    /\ written = <<>>
    /\ lateAdds = {}
    /\ decodesAfterFinish = 0
    /\ mainDone = FALSE
    /\ tokens = <<>>
    /\ bridge = <<>>
    /\ calls = [t \in Threads |-> IF t = "reader" THEN decode_calls ELSE 0]
    /\ od = OdInit
    /\ at_end_ = FALSE
    /\ timedOut = FALSE
    /\ variant \in {"timeout", "plain"}
    /\ cursors = <<>>
    /\ main_loop = LoopInit
    /\ stop_source = FALSE

BufMainNext ==
    \/ MainDecodeCall
    \/ CallbackWriteLock
    \/ CallbackWrite
    \/ CallbackWriteDead
    \/ BufIncLock
    \/ BufIncWait
    \/ BufTimeout
    \/ BufInc
    \/ BufIncTimedOut
    \/ TakeEnd
    \/ TakeEqAtEnd
    \/ TakeEqLock
    \/ ReaderEq
    \/ TakeProcess
    \/ MainDestroyRange
    \/ MainDestroyDecoder
    \/ SpuriousWakeup

BufMainSpec == BufMainInit /\ [][BufMainNext]_vars

----------------------------------------------------------------------------
(* Claims                                                                  *)

\* The items a sequence holds.
Range(q) == {q[i] : i \in 1..Len(q)}

\* The sequence 0, 1, ..., n-1.
UpTo(n) == [i \in 1..n |-> i - 1]

\* C1: a single producer calls add() N times and then finish(); a single
\* reader iterates from begin() to the sentinel. When the reader observes End
\* it has yielded exactly the N added items, in add order.
C1_ReaderYieldsAllThenEnd ==
    pc["reader"] = "done" => consumed = written

\* C2: in the ex02 pipeline, whenever the reader's cursor has compared equal
\* to the sentinel, no unread item remains: the buffer is empty and the cursor
\* holds no item that was not handed to the reader's lambda.
C2_EndImpliesDrained ==
    pc["reader"] = "done" =>
        /\ buffer_ = <<>>
        /\ current_ # NoFrame => current_ \in Range(consumed)

\* C3: end to end in ex02 with count = N: when both loops have completed, the
\* reader has processed exactly the frames 0, 1, ..., N-1, in that order
\* (index = N then: one decode per iteration).
C3_EndToEnd ==
    (pc["transfer"] = "done" /\ pc["reader"] = "done") =>
        consumed = UpTo(index)

\* C4: producer-driven shutdown in ex02: once the producer loop has completed
\* its iteration count, the channel is closed (finish() was called as a
\* consequence of the loop completing), whatever the stopper thread does.
C4_ProducerClosesChannel ==
    pc["transfer"] = "done" => finished_

\* C5: external stop in ex02: an item whose add() starts after finish() has
\* returned is never yielded to the reader; it reaches neither the buffer nor
\* the cursor nor the reader's output.
C5_NoLateItemYielded ==
    /\ Range(consumed) \cap lateAdds = {}
    /\ Range(buffer_) \cap lateAdds = {}
    /\ current_ \notin lateAdds

\* C5 witness: an add() started after finish() returned, and the reader has
\* output.
C5_Witness ==
    /\ lateAdds # {}
    /\ consumed # <<>>
    /\ pc["transfer"] = "count"

\* C6: after finish() has returned, the producer loop initiates at most one
\* further decode, whatever count is left.
C6_AtMostOneDecodeAfterFinish ==
    decodesAfterFinish <= 1

\* C7: termination of the ex02 pipeline: under fair scheduling, once finish()
\* has been called both loops complete and main returns.
C7_Termination ==
    finished_ ~> (pc["transfer"] = "done" /\ pc["reader"] = "done" /\ mainDone)

\* C7 witness: finish() was called, the producer ran all its iterations, the
\* reader reached End and main returned.
C7_Witness ==
    /\ mainDone
    /\ finished_
    /\ pc["transfer"] = "done"
    /\ pc["reader"] = "done"
    /\ count = 0

\* C8: backpressure: with the gate q.size() < frame_cache_limit and the
\* producer calling async_write_gate() before every add(), the buffer never
\* holds more than frame_cache_limit items.
C8_BufferWithinCapacity ==
    Len(buffer_) <= frame_cache_limit

\* C8 witness: the buffer is full and the producer is held back in the gate.
C8_Witness ==
    /\ Len(buffer_) = frame_cache_limit
    /\ pc["transfer"] = "gate_blocked"
    /\ "transfer" \in cv_
    /\ ~finished_

\* C9: a producer blocked in async_write_gate() while the gate predicate holds
\* or the channel is finished leaves the gate, under fair scheduling.
C9_GateWaiterResumes ==
    (pc["transfer"] = "gate_blocked" /\ gate_ready(buffer_, finished_))
        ~> (pc["transfer"] = "decode")

\* C9 witness: the producer was blocked in the gate, the reader removed an
\* item and the producer, notified, is about to take the mutex again.
C9_Witness ==
    /\ pc["transfer"] = "gate_blocked"
    /\ "transfer" \notin cv_
    /\ write_gate(buffer_)
    /\ ~finished_
    /\ pc["reader"] = "eq"

\* C10: a reader blocked in operator++ while the buffer is non-empty or the
\* channel is finished leaves operator++, under fair scheduling.
C10_ReaderWaiterResumes ==
    (pc["reader"] = "inc_blocked" /\ inc_ready(buffer_, finished_))
        ~> (pc["reader"] = "eq")

\* C10 witness: the reader was blocked on the empty, open channel, add()
\* stored an item and notified it.
C10_Witness ==
    /\ pc["reader"] = "inc_blocked"
    /\ "reader" \notin cv_
    /\ buffer_ # <<>>
    /\ ~finished_
    /\ pc["transfer"] = "count"

\* C11: an add() that runs after finish() has been called is dropped: it
\* leaves the buffer and the finished flag as they were and returns to its
\* caller like any other add().
C11_AddAfterFinishDropped ==
    [][(pc["transfer"] = "add_locked" /\ finished_
            /\ pc'["transfer"] # "add_locked")
        => (buffer_' = buffer_ /\ finished_' = finished_
            /\ pc'["transfer"] = "add_returned")]_vars

\* C11 witness: the reader has not run at all, finish() was called, and an
\* add() has returned with the buffer still empty.
C11_Witness ==
    /\ finished_
    /\ pc["transfer"] = "add_returned"
    /\ written # <<>>
    /\ buffer_ = <<>>
    /\ pc["reader"] = "inc"
    /\ calls["reader"] = MaxCalls

\* C13: once the channel is finished and its buffer empty, it stays so
\* whatever add() or finish() follows, no operator++ blocks (the reader never
\* waits on cv_) and every comparison with the sentinel reports End.
C13_EndIsTerminal ==
    [][(finished_ /\ buffer_ = <<>>)
        => /\ finished_'
           /\ buffer_' = <<>>
           /\ "reader" \notin cv_'
           /\ pc["reader"] = "inc_locked"
                => pc'["reader"] \in {"inc_locked", "inc_returned"}
           /\ pc["reader"] = "eq_locked"
                => pc'["reader"] \in {"eq_locked", "saw_end"}]_vars

\* C13 witness: after End, an add() was made and the reader, having used all
\* its calls, saw End on its last comparison.
C13_Witness ==
    /\ finished_
    /\ buffer_ = <<>>
    /\ pc["reader"] = "saw_end"
    /\ calls["reader"] = 0
    /\ pc["transfer"] = "add_returned"
    /\ pc["stopper"] = "done"

\* C14: finish() is monotonic and idempotent: no step resets finished_, and a
\* finish() that runs when finished_ is already set changes nothing of the
\* range (buffer, flag, waiters).
C14_FinishIdempotent ==
    [][/\ finished_ => finished_'
       /\ (finished_ /\ \E t \in Threads :
               pc[t] = "finish_locked" /\ pc'[t] # "finish_locked")
            => (buffer_' = buffer_ /\ finished_' = finished_ /\ cv_' = cv_)]_vars

\* C14 witness: both callers of finish() have returned.
C14_Witness ==
    /\ finished_
    /\ pc["transfer"] = "finish_returned"
    /\ pc["stopper"] = "done"

\* C15: the bridge is exactly-once: every started operation initiated exactly
\* one decode_next_frame; its callback has run at most once, and is still
\* owed by the decoder if it has not run; the receiver was completed once per
\* callback, with the frame passed to that callback; and when the producer
\* loop is done every operation has had its callback.
C15_BridgeExactlyOnce ==
    /\ \A op \in 1..Len(bridge) :
         /\ bridge[op].init = 1
         /\ bridge[op].cb <= 1
         /\ bridge[op].done = bridge[op].cb
         /\ bridge[op].rcvFrame = bridge[op].cbFrame
         /\ bridge[op].cb = 0 <=> op \in Range(tokens)
         /\ bridge[op].cb = 1 => bridge[op].cbFrame = op - 1
    /\ pc["transfer"] = "done" => \A op \in 1..Len(bridge) : bridge[op].cb = 1

\* C15 witness: several operations were started and each was completed.
C15_Witness ==
    /\ Len(bridge) >= 2
    /\ pc["transfer"] = "done"
    /\ \A op \in 1..Len(bridge) : bridge[op].done = 1

\* C16: when on_frame has been invoked a second time for an operation, a
\* ProtocolViolation was raised and the receiver got no second value.
C16_SecondCallbackRejected ==
    \A op \in 1..Len(bridge) :
        bridge[op].cb > 1 => (bridge[op].viol /\ bridge[op].done <= 1)

\* C17: when a fetch has failed and ended the producer loop, the channel is
\* closed.
C17_FailureClosesChannel ==
    pc["transfer"] = "failed" => finished_

\* C18: every operator++ of the on-demand cursor evaluates the until
\* predicate once, before any fetch; when it was true the call made no fetch
\* and left current_ as it was, and when it was false the call made exactly
\* one fetch and current_ is the frame fetched.
C18_IncFetchesUnlessUntil ==
    /\ pc["reader"] = "od_fetch" => (od.evals = 1 /\ od.fetches = 0)
    /\ pc["reader"] = "od_inc_returned" =>
         /\ od.evals = 1
         /\ IF od.until_pred
              THEN od.fetches = 0 /\ current_ = od.before
              ELSE od.fetches = 1 /\ current_ = index - 1
                                  /\ bridge[Len(bridge)].rcvFrame = current_

\* C18 witness: an operator++ that fetched was followed by one that found the
\* predicate true and kept the item.
C18_Witness ==
    /\ pc["reader"] = "od_inc_returned"
    /\ od.until_pred
    /\ od.fetches = 0
    /\ current_ # NoFrame
    /\ current_ = od.before

\* C19: once a comparison of the on-demand cursor with the sentinel has
\* reported End, every later comparison reports End.
C19_OdEndIsSticky ==
    (pc["reader"] = "od_eq_returned" /\ od.endBefore) => od.eqResult

\* C12: in both variants of buffering_range, a write() that runs after
\* finish() has set finished_ adds no item to the buffer.
C12_WriteAfterFinishRejected ==
    [][(pc["transfer"] = "write_locked" /\ finished_
          /\ pc'["transfer"] # "write_locked")
        => buffer_' = buffer_]_vars

\* C20: in the timeout variant of buffering_range the cursor is at End only
\* after finish() has been called, and a reader that stopped has left no
\* item unread.
C20_TimeoutIsNotEnd ==
    variant = "timeout" =>
        /\ at_end_ => finished_
        /\ (pc["reader"] = "done" /\ pc["transfer"] = "write"
              /\ calls["transfer"] = 0) =>
             (finished_ \/ consumed = written)

\* The positions at which a thread is between taking mutex_ and releasing it.
LockedPcs == {"add_locked", "inc_locked", "eq_locked", "finish_locked",
              "gate_locked"}

\* C24: in the ex02 pipeline a thread is inside add, operator++, operator==,
\* finish or async_write_gate only while it holds mutex_, so at most one
\* thread is inside at a time; buffer_ and finished_ change only in a step of
\* the thread that holds mutex_, and that step empties cv_ (notify_all)
\* before it releases the mutex.
C24_MutualExclusion ==
    [][/\ \A t \in Threads : pc'[t] \in LockedPcs => mutex_' = t
       /\ Cardinality({t \in Threads : pc'[t] \in LockedPcs}) <= 1
       /\ (buffer_' # buffer_ \/ finished_' # finished_) =>
            /\ mutex_ \in Threads
            /\ pc[mutex_] \in LockedPcs
            /\ pc'[mutex_] \notin LockedPcs
            /\ mutex_' = "free"
            /\ cv_' = {}]_vars

\* C24 witness: the producer is blocked on the gate, the reader holds the
\* mutex inside operator++ and the stopper waits for the mutex.
C24_Witness ==
    /\ pc["reader"] = "inc_locked"
    /\ mutex_ = "reader"
    /\ pc["transfer"] = "gate_blocked"
    /\ pc["stopper"] = "finish"
    /\ buffer_ # <<>>

\* The frames the producer fetched for which the gate held and add() has not
\* run yet.
InFlight ==
    IF pc["transfer"] \in {"decode", "decode_wait", "add", "add_locked"}
      THEN 1 ELSE 0

\* The item the reader's cursor holds and has not handed to the lambda yet.
Held ==
    IF pc["reader"] \in {"eq", "eq_locked", "deref"} /\ current_ # NoFrame
      THEN 1 ELSE 0

\* C29: while the channel is not finished, the buffered items plus the
\* decodes that passed the gate and were not added yet are at most
\* frame_cache_limit, and with the item the cursor holds at most
\* frame_cache_limit + 1 fetched frames are unprocessed.
C29_BoundedUnprocessed ==
    ~finished_ =>
        /\ Len(buffer_) + InFlight <= frame_cache_limit
        /\ Len(buffer_) + InFlight + Held <= frame_cache_limit + 1

\* C29 witness: the buffer is full and the cursor holds one more frame.
C29_Witness ==
    /\ ~finished_
    /\ Len(buffer_) = frame_cache_limit
    /\ Held = 1

\* C30: when the comparison of the reader's cursor with the sentinel returned
\* false, current_ holds an item, so the reader never dereferences an empty
\* cursor.
C30_NotEndHasItem ==
    /\ pc["reader"] = "deref" => current_ # NoFrame
    /\ \A i \in 1..Len(consumed) : consumed[i] # NoFrame

\* C30 witness: finish() has returned, the reader then loaded an item and the
\* comparison still has to be made.
C30_Witness ==
    /\ pc["stopper"] = "done"
    /\ pc["reader"] = "eq"
    /\ current_ # NoFrame
    /\ Len(consumed) > 0

\* The items the cursor of thread t loaded, as pairs <<t, position>>.
Loads == {<<t, i>> : t \in Cursors, i \in 1..MaxAdds}

\* C23: with two cursors advancing concurrently, every item is loaded by at
\* most one operator++ of at most one cursor, a loaded item was added before
\* and is no longer in the buffer, and no item is in the buffer twice.
C23_ItemYieldedOnce ==
    /\ \A a \in Loads, b \in Loads :
         (a # b /\ a[2] <= Len(cursors[a[1]].loaded)
                /\ b[2] <= Len(cursors[b[1]].loaded))
           => cursors[a[1]].loaded[a[2]] # cursors[b[1]].loaded[b[2]]
    /\ \A t \in Cursors :
         /\ Len(cursors[t].loaded) <= MaxAdds
         /\ Range(cursors[t].loaded) \subseteq Range(written)
         /\ Range(cursors[t].loaded) \cap Range(buffer_) = {}
    /\ \A i \in 1..Len(buffer_), j \in 1..Len(buffer_) :
         i # j => buffer_[i] # buffer_[j]

\* C23 witness: each of the two cursors has loaded an item.
C23_Witness ==
    /\ cursors["reader"].loaded # <<>>
    /\ cursors["reader2"].loaded # <<>>
    /\ cursors["reader"].current_ # NoFrame
    /\ cursors["reader2"].current_ # NoFrame

\* C26: in the timeout variant of buffering_range at_end_ becomes true only
\* in an operator++ step that finds the buffer empty, and once finish() has
\* been called and the cursor is at End no item that was in the buffer when
\* finish() was called is left in the buffer.
C26_EndOnlyWhenDrained ==
    [][variant = "timeout" =>
         /\ (~at_end_ /\ at_end_') =>
              (pc["reader"] = "inc_locked" /\ buffer_ = <<>>)
         /\ (at_end_' /\ finished_') => Range(buffer_') \subseteq lateAdds']_vars

\* C28: the cursor of the finish-flag ondemand_range starts no fetch on the
\* decoder after finish() has returned.
C28_NoFetchAfterFinish ==
    decodesAfterFinish = 0

\* C27: the k-th call of decode_next_frame gets the k-th callback, which
\* carries frame index k - 1; no call gets two callbacks and no index is
\* delivered twice or skipped, whichever of the threads made the calls.
C27_CallbacksInCallOrder ==
    /\ \A k \in 1..Len(consumed) : consumed[k] = k
    /\ index = Len(consumed)
    /\ \A k \in 1..Len(bridge) :
         /\ bridge[k].cb = (IF k <= Len(consumed) THEN 1 ELSE 0)
         /\ bridge[k].cb = 1 => bridge[k].cbFrame = k - 1
    /\ tokens = [k \in 1..(Len(bridge) - Len(consumed)) |-> Len(consumed) + k]

\* C27 witness: calls of both threads are pending together after some
\* callbacks have run.
C27_Witness ==
    /\ consumed # <<>>
    /\ Len(tokens) >= 2
    /\ bridge[tokens[1]].by # bridge[tokens[2]].by
    /\ bridge[1].by = "reader"

\* C21: with MaxItems write() calls and MaxItems concurrent read() calls on
\* the frame_index_cache, every read() returns: eventually the reader has
\* made all its reads, the values read are the values written, in write
\* order, and the queue is empty from then on.
C21_AllWritesRead ==
    <>[](/\ pc["reader"] = "done"
         /\ Len(consumed) = MaxItems
         /\ consumed = written
         /\ buffer_ = <<>>)

\* C21 witness: the reader was blocked in read() on the empty queue and has
\* been notified by a write(); the value is in the queue.
C21_Witness ==
    /\ pc["reader"] = "read_blocked"
    /\ "reader" \notin cv_
    /\ buffer_ # <<>>
    /\ consumed # <<>>

C25_Ex01Completes ==
    /\ ~(main_loop.state = "finished" /\ pc["reader"] = "queued")
    /\ pc["reader"] # "stopped"
    /\ mainDone => consumed = [i \in 1..limit |-> i - 1]

\* C31: in the loop over the on-demand range with an until predicate, every
\* dereference follows an operator++ that fetched a frame and returns that
\* frame, no frame is returned twice, and when End is reported every frame
\* that was fetched has been returned exactly once, in fetch order.
C31_FetchedYieldedOnce ==
    /\ pc["reader"] # "crashed"
    /\ pc["reader"] = "od_deref" => (od.fetches = 1 /\ current_ = index - 1)
    /\ \A i \in 1..Len(consumed) : consumed[i] = i - 1
    /\ pc["reader"] = "done" => Len(consumed) = index

\* C32: in the buffering example no callback writes into the range after the
\* range was destroyed, and when the range is destroyed each of the
\* decode_calls decode operations has had its callback.
C32_NoCallbackAfterRange ==
    /\ lateAdds = {}
    /\ pc["transfer"] # "crashed"
    /\ RangeDead =>
         /\ tokens = <<>>
         /\ index = decode_calls
         /\ \A k \in 1..Len(bridge) : bridge[k].cb = 1

====
